---- MODULE Spec2Model ----
(***************************************************************************)
(* Boundary evaluation and degradation synthesis of the VLM benchmark      *)
(* scripts.                                                                *)
(*                                                                         *)
(* Part 1 (specification Spec) models the three sweeps that iterate over   *)
(* (image, kind, level) items:                                             *)
(* ColorBlindnessEvaluator.evaluate_colorblind_sequence,                   *)
(* VisualBoundaryEvaluator (one pass of the per-type loop body of          *)
(* run_comprehensive_evaluation) and                                       *)
(* ColorBlindnessSimulator.batch_process_images.                           *)
(*                                                                         *)
(* Levels are scaled: level MaxLevel stands for level 100 / severity 1.0.  *)
(* A Python float severity step/(n-1) is modelled by the fraction in       *)
(* lowest terms <<num, den>>; None is the empty tuple <<>>; an integer     *)
(* level that may be None is <<level>>.                                    *)
(*                                                                         *)
(* Part 2 (specification SpecTransform) models the transforms as functions *)
(* from a source image, a level and the state of the random source to the  *)
(* set of images the call can return.  An image is a row of pixels, a      *)
(* pixel a triple of channel values 0..255, and the levels are the         *)
(* program's own (0..100, severity in percent, gradient index 0..99).      *)
(* Real arithmetic is done on exact fractions; where the floating-point    *)
(* result is truncated to an integer and rounding can fall on either side, *)
(* both results are kept.  Specification SpecColor runs the colour-vision  *)
(* simulations alone, over every gray pixel as well, and specification     *)
(* SpecShape runs the transforms that resize, over two-dimensional images  *)
(* of up to MaxSide pixels a side.                                         *)
(*                                                                         *)
(* Part 3 (specification SpecGradient) models the gradient sequencers      *)
(* generate_gradient_variations and fix_illusion: one parameter of an      *)
(* illusion kind over the indices of a sequence, in two runs side by side. *)
(*                                                                         *)
(* Part 4 (specification SpecCalls) models calls outside the contract:     *)
(* images that are not RGB, levels and severities outside their range,     *)
(* and kinds that are not supported.                                       *)
(*                                                                         *)
(* Part 5 models the handlers around the transforms: SpecParallel two      *)
(* transform invocations that share the random source, SpecGeneration the  *)
(* gradient generation loop of the colour-vision datasets, SpecDataset     *)
(* generate_degraded_dataset and its metadata, SpecVisibility              *)
(* calculate_visibility_threshold, and SpecMetrics                         *)
(* calculate_overall_metrics on an evaluated sequence.                     *)
(***************************************************************************)
EXTENDS Integers, Sequences, FiniteSets, TLC

VARIABLES
    evaluator,          \* which sweep runs: "colorblind", "boundary", "batch"
    levels,             \* recorded levels of the variants handed to the sweep
    n_images,           \* number of base images of the sweep
    img,                \* index of the base image being processed (1-based)
    step,               \* number of variants of the current image processed
    predictions,        \* sequence_results["predictions"] (colour-blindness)
    results,            \* type_results, the TestResult list (visual boundary)
    batch_results,      \* results of batch_process_images
    failure_threshold,  \* reported failure threshold, <<>> for None
    recovery_threshold, \* reported recovery threshold, <<>> for None
    stats,              \* <<total_tests, successful_tests>> (visual boundary)
    pc,                 \* "run", "done", or "raised" (an exception escaped)
    image,              \* the source image handed to a transform
    rng,                \* state of the global random source
    applied,            \* the transform call made: generator, kind, level
                        \* (or severity in percent, or gradient index)
    output,             \* the image the transform returned
    undefined,          \* the call evaluated 0/0 and cast NaN to uint8
    shape,              \* <<width, height>> of the source image
    resized,            \* <<intermediate size, size returned>> of a call that
                        \* resizes, <<>> otherwise
    mode,               \* PIL mode of the source image: "L", "RGB", "RGBA"
    raised,             \* the exception the call raised, "none" otherwise
    output_ref,         \* the buffer the call returned: "input" for the
                        \* buffer it was given, "new" for one it created,
                        \* "none" if it returned nothing
    sequencer,          \* which gradient sequencer runs, "none" otherwise
    param_range,        \* declared <<min_val, max_val>> of the parameter
                        \* followed, in tenths
    index,              \* loop variable i: index of the next entry
    params,             \* the parameter entry last generated, by each of
                        \* two runs of the same sequence; <<>> before
    invocations,        \* transform invocations that run side by side: for
                        \* each its (generator, kind, level), the state of
                        \* the random source when the batch started, and
                        \* its output once it has run
    generation,         \* a gradient generation: its colorblind_type, its
                        \* num_steps, and whether it has returned
    generated_files,    \* the files it has written, in order: step and
                        \* severity of each
    dataset,            \* a run of generate_degraded_dataset: the image
                        \* list (whether each image loads), the loop
                        \* position, dataset_info, whether it was saved
    degraded_images,    \* metadata['degraded_images'], one record for
                        \* each image written
    visibility_threshold,   \* what calculate_visibility_threshold
                        \* returned, None before it has
    overall_metrics     \* what calculate_overall_metrics returned, None
                        \* before it has

sweep_vars == <<evaluator, levels, n_images, img, step, predictions, results,
                batch_results, failure_threshold, recovery_threshold, stats, pc>>

transform_vars ==
    <<image, rng, applied, output, undefined, shape, resized, mode, raised,
      output_ref>>

sequencer_vars == <<sequencer, param_range, index, params>>

generation_vars == <<generation, generated_files>>

dataset_vars == <<dataset, degraded_images>>

metrics_vars == <<visibility_threshold, overall_metrics>>

handler_vars == <<invocations, generation_vars, dataset_vars, metrics_vars>>

vars == <<sweep_vars, transform_vars, sequencer_vars, handler_vars>>

---------------------------------------------------------------------------
(* Bounds *)

MaxLevel == 3

MaxImages == 2

None == <<>>

---------------------------------------------------------------------------
(* Helpers *)

RECURSIVE Gcd(_, _)
Gcd(a, b) ==
    IF b = 0 THEN a ELSE Gcd(b, a % b)

\* Python float a / b for small non-negative integers, b > 0: equal
\* quotients are equal floats, so the fraction in lowest terms stands for it.
Frac(a, b) ==
    LET g == Gcd(a, b) IN <<a \div g, b \div g>>

\* Strictly ascending level lists over 0..MaxLevel, at least one level.
LevelLists ==
    { s \in UNION { [1..k -> 0..MaxLevel] : k \in 1..(MaxLevel + 1) } :
        \A i \in 1..(Len(s) - 1) : s[i] < s[i + 1] }

\* The generated_files lists the dataset generators write: one file per
\* step 0..N in order, the file of step k recorded with severity k / N.
GradientFileLists ==
    { [ i \in 1..n |-> i - 1 ] : n \in 1..(MaxLevel + 1) }

SetMin(S) ==
    CHOOSE x \in S : \A y \in S : x <= y

---------------------------------------------------------------------------
(* ColorBlindnessEvaluator *)

\* for pred in predictions: if "success" in pred and not pred["success"]:
\*     return pred["severity"];  return 1.0
RECURSIVE CB_scan_failure(_, _)
CB_scan_failure(preds, i) ==
    IF i > Len(preds) THEN <<1, 1>>
    ELSE IF preds[i].has_success /\ ~preds[i].success THEN preds[i].severity
    ELSE CB_scan_failure(preds, i + 1)

\* Variant of find_failure_threshold that tests `not pred.get("success")`:
\* an errored entry counts as a failure.
CB_find_failure_threshold_no_key_check(preds) ==
    LET F == { i \in 1..Len(preds) : ~preds[i].success }
    IN IF F = {} THEN <<1, 1>> ELSE preds[SetMin(F)].severity

CB_find_failure_threshold(preds) ==
    CB_scan_failure(preds, 1)

\* failed = False; for pred: if "success" in pred: if not success: failed =
\* True; elif failed and success: return severity;  return None
RECURSIVE CB_scan_recovery(_, _, _)
CB_scan_recovery(preds, i, failed) ==
    IF i > Len(preds) THEN None
    ELSE IF ~preds[i].has_success THEN CB_scan_recovery(preds, i + 1, failed)
    ELSE IF ~preds[i].success THEN CB_scan_recovery(preds, i + 1, TRUE)
    ELSE IF failed THEN preds[i].severity
    ELSE CB_scan_recovery(preds, i + 1, failed)

\* Variant of find_recovery_threshold that marks `failed` on every entry
\* that is not a success, errored entries included.
CB_find_recovery_threshold_no_key_check(preds) ==
    LET R == { i \in 1..Len(preds) :
                 /\ preds[i].success
                 /\ \E j \in 1..(i - 1) : ~preds[j].success }
    IN IF R = {} THEN None ELSE preds[SetMin(R)].severity

CB_find_recovery_threshold(preds) ==
    CB_scan_recovery(preds, 1, FALSE)

\* The entry appended for one gradient file. The severity comes from the
\* position of the file in the list, step / (len(gradient_files) - 1).
CB_step_result(s, n, raises, is_correct, is_confident) ==
    [ step         |-> s,
      severity     |-> Frac(s, n - 1),
      has_success  |-> ~raises,
      is_correct   |-> ~raises /\ is_correct,
      is_confident |-> ~raises /\ is_confident,
      success      |-> ~raises /\ is_correct /\ is_confident ]

\* One iteration of the loop of evaluate_colorblind_sequence; the last
\* iteration is followed by the two threshold computations.  With a single
\* gradient file the severity division is 0 / 0 and raises outside the try.
CBEvaluateStep(raises, is_correct, is_confident) ==
    /\ evaluator = "colorblind"
    /\ pc = "run"
    /\ step < Len(levels)
    /\ IF Len(levels) = 1
       THEN /\ pc' = "raised"
            /\ UNCHANGED <<step, predictions, failure_threshold,
                           recovery_threshold>>
       ELSE LET preds == Append(predictions,
                    CB_step_result(step, Len(levels), raises,
                                   is_correct, is_confident))
            IN /\ predictions' = preds
               /\ step' = step + 1
               /\ IF step + 1 = Len(levels)
                  THEN /\ failure_threshold' = CB_find_failure_threshold(preds)
                       /\ recovery_threshold' = CB_find_recovery_threshold(preds)
                       /\ pc' = "done"
                  ELSE UNCHANGED <<failure_threshold, recovery_threshold, pc>>
    /\ UNCHANGED <<evaluator, levels, n_images, img, results, batch_results,
                   stats>>
    /\ UNCHANGED <<transform_vars, sequencer_vars, handler_vars>>

---------------------------------------------------------------------------
(* VisualBoundaryEvaluator *)

\* sorted(results, key=lambda x: x.level): a stable sort.
SortInsert(x, s) ==
    LET k == Cardinality({ i \in 1..Len(s) : s[i].level <= x.level })
    IN SubSeq(s, 1, k) \o <<x>> \o SubSeq(s, k + 1, Len(s))

RECURSIVE SortedByLevel(_)
SortedByLevel(rs) ==
    IF rs = <<>> THEN <<>>
    ELSE SortInsert(rs[Len(rs)], SortedByLevel(SubSeq(rs, 1, Len(rs) - 1)))

\* The loop over sorted_results: failure_count counts the failures in a row;
\* at the third the threshold is result.level - 2 and the loop breaks.
RECURSIVE VB_scan_failure(_, _, _)
VB_scan_failure(sorted_results, i, failure_count) ==
    IF i > Len(sorted_results) THEN None
    ELSE IF sorted_results[i].success
         THEN VB_scan_failure(sorted_results, i + 1, 0)
    ELSE IF failure_count + 1 >= 3
         THEN <<sorted_results[i].level - 2>>
    ELSE VB_scan_failure(sorted_results, i + 1, failure_count + 1)

VB_find_failure_threshold(rs) ==
    VB_scan_failure(SortedByLevel(rs), 1, 0)

VB_stats(rs) ==
    <<Len(rs), Cardinality({ i \in 1..Len(rs) : rs[i].success })>>

\* One iteration of the loop of test_single_image: a missing file is
\* recorded as a failed test, otherwise model_function is called, with no
\* try around it.  After the last level of the last image the per-type
\* analysis of run_comprehensive_evaluation runs on the concatenated list.
VBTestLevel(missing, raises, success) ==
    /\ evaluator = "boundary"
    /\ pc = "run"
    /\ img <= n_images
    /\ step < Len(levels)
    /\ IF ~missing /\ raises
       THEN /\ pc' = "raised"
            /\ UNCHANGED <<img, step, results, failure_threshold, stats>>
       ELSE LET rs == Append(results,
                    [ image   |-> img,
                      level   |-> levels[step + 1],
                      success |-> ~missing /\ success ])
                last == (step + 1 = Len(levels))
            IN /\ results' = rs
               /\ step' = IF last THEN 0 ELSE step + 1
               /\ img' = IF last THEN img + 1 ELSE img
               /\ IF last /\ img = n_images
                  THEN /\ failure_threshold' = VB_find_failure_threshold(rs)
                       /\ stats' = VB_stats(rs)
                       /\ pc' = "done"
                  ELSE UNCHANGED <<failure_threshold, stats, pc>>
    /\ UNCHANGED <<evaluator, levels, n_images, predictions, batch_results,
                   recovery_threshold>>
    /\ UNCHANGED <<transform_vars, sequencer_vars, handler_vars>>

---------------------------------------------------------------------------
(* ColorBlindnessSimulator.batch_process_images *)

colorblind_types == <<"protanopia", "deuteranopia", "tritanopia">>

\* One image file: the whole body of the try.  fail_at = 0: Image.open
\* raises; fail_at = k in 1..3: generating or analysing the k-th type
\* raises; fail_at = 4: nothing raises.  The except clause prints and the
\* loop goes on with the next file.
BatchProcessImage(fail_at) ==
    /\ evaluator = "batch"
    /\ pc = "run"
    /\ img <= n_images
    /\ batch_results' = batch_results \o
          [ k \in 1..(IF fail_at = 0 THEN 0 ELSE fail_at - 1) |->
                [ image |-> img, colorblind_type |-> colorblind_types[k] ] ]
    /\ img' = img + 1
    /\ pc' = IF img = n_images THEN "done" ELSE "run"
    /\ UNCHANGED <<evaluator, levels, n_images, step, predictions, results,
                   failure_threshold, recovery_threshold, stats>>
    /\ UNCHANGED <<transform_vars, sequencer_vars, handler_vars>>

---------------------------------------------------------------------------
(* The sweeps *)

NoTransform ==
    /\ image = <<>>
    /\ rng = 0
    /\ applied = [generator |-> "none", kind |-> "none", level |-> 0,
                  improved |-> FALSE]
    /\ output = <<>>
    /\ undefined = FALSE
    /\ shape = <<Len(image), 1>>
    /\ resized = <<>>
    /\ mode = "RGB"
    /\ raised = "none"
    /\ output_ref = "none"

\* No gradient sequencer runs.
NoSequence ==
    /\ sequencer = "none"
    /\ param_range = <<0, 1>>
    /\ index = 0
    /\ params = <<>>

\* No handler of the later parts runs.
NoGeneration ==
    /\ generation = [colorblind_type |-> "none", num_steps |-> 1,
                     returned |-> FALSE]
    /\ generated_files = <<>>

NoDataset ==
    /\ dataset = [image_list |-> <<>>, img_info |-> 1, loaded |-> FALSE,
                  degradation_type |-> 1, level |-> 0,
                  dataset_info |-> [total_base_images |-> 0,
                                    levels_per_type |-> 0,
                                    total_generated_images |-> 0],
                  saved |-> TRUE]
    /\ degraded_images = <<>>

\* calculate_overall_metrics has not returned.
no_overall_metrics ==
    [ returned |-> FALSE, error |-> FALSE, total_predictions |-> 0,
      successful_predictions |-> 0, severity_accuracy_breakdown |-> <<>> ]

NoMetrics ==
    /\ visibility_threshold = None
    /\ overall_metrics = no_overall_metrics

NoHandler ==
    /\ invocations = <<>>
    /\ NoGeneration
    /\ NoDataset
    /\ NoMetrics

\* No transform has been called yet.
Idle ==
    applied.generator = "none"

Init ==
    /\ NoTransform
    /\ NoSequence
    /\ NoHandler
    /\ evaluator \in {"colorblind", "boundary", "batch"}
    /\ levels \in LevelLists
    /\ n_images \in 1..MaxImages
    /\ evaluator = "colorblind" => n_images = 1 /\ levels \in GradientFileLists
    /\ evaluator = "batch" => levels = <<0>>
    /\ img = 1
    /\ step = 0
    /\ predictions = <<>>
    /\ results = <<>>
    /\ batch_results = <<>>
    /\ failure_threshold = None
    /\ recovery_threshold = None
    /\ stats = <<0, 0>>
    /\ pc = "run"

Next ==
    \/ \E raises \in BOOLEAN, is_correct \in BOOLEAN, is_confident \in BOOLEAN :
          CBEvaluateStep(raises, is_correct, is_confident)
    \/ \E missing \in BOOLEAN, raises \in BOOLEAN, success \in BOOLEAN :
          VBTestLevel(missing, raises, success)
    \/ \E fail_at \in 0..4 : BatchProcessImage(fail_at)

Spec == Init /\ [][Next]_vars

---------------------------------------------------------------------------
(* Images and arithmetic of the transforms *)

MaxPixels == 2

\* Colours of the multi-pixel source images.
Palette ==
    { <<0, 0, 0>>, <<255, 0, 0>>, <<10, 128, 200>>, <<201, 30, 99>> }

Grays ==
    { <<v, v, v>> : v \in 0..255 }

\* Source images, each a row of pixels: every one-pixel gray or palette
\* image and every palette image of up to MaxPixels pixels.
Images ==
    { <<p>> : p \in Grays \cup Palette }
      \cup UNION { [1..n -> Palette] : n \in 2..MaxPixels }

PaletteImages ==
    UNION { [1..n -> Palette] : n \in 1..MaxPixels }

RECURSIVE SumSeq(_)
SumSeq(q) ==
    IF q = <<>> THEN 0 ELSE Head(q) + SumSeq(Tail(q))

Max2(a, b) == IF a >= b THEN a ELSE b

Min2(a, b) == IF a <= b THEN a ELSE b

\* np.clip(x, 0, 255).astype(np.uint8) of a float whose exact value is
\* num / den (den > 0): the clipped value truncated.  When the exact value
\* is a positive integer the float may lie just below it.
FloatTrunc(num, den) ==
    IF num <= 0 THEN {0}
    ELSE IF num > 255 * den THEN {255}
    ELSE IF num % den = 0 THEN {(num \div den) - 1, num \div den}
    ELSE {num \div den}

\* The images whose k-th pixel is drawn from the k-th set of pixels.
RECURSIVE ImageChoices(_)
ImageChoices(pixel_sets) ==
    IF pixel_sets = <<>> THEN {<<>>}
    ELSE { <<p>> \o rest : p \in Head(pixel_sets),
                           rest \in ImageChoices(Tail(pixel_sets)) }

\* The pixels whose c-th channel is drawn from the c-th set of values.
PixelChoices(c1, c2, c3) ==
    { <<a, b, c>> : a \in c1, b \in c2, c \in c3 }

\* An operation applied to every pixel on its own.
PerPixel(im, Op(_)) ==
    ImageChoices([ k \in 1..Len(im) |-> Op(im[k]) ])

\* floor(num / den + 1/2) for num >= 0, den > 0.
RoundDiv(num, den) ==
    (2 * num + den) \div (2 * den)

\* Library filters that mix neighbouring pixels (Gaussian blur, area and
\* linear resize): every output pixel is a weighted mean of the source
\* pixel (weight w / 4) and of the other pixels of the image.  A one-pixel
\* image comes back unchanged.
SmoothedChannel(im, k, c, w) ==
    IF Len(im) = 1 THEN im[k][c]
    ELSE LET others == SumSeq([ j \in 1..Len(im) |-> im[j][c] ]) - im[k][c]
         IN RoundDiv(w * (Len(im) - 1) * im[k][c] + (4 - w) * others,
                     4 * (Len(im) - 1))

SmoothingOutcomes(im) ==
    { [ k \in 1..Len(im) |->
          <<SmoothedChannel(im, k, 1, w), SmoothedChannel(im, k, 2, w),
            SmoothedChannel(im, k, 3, w)>> ] : w \in 2..4 }

\* PIL's ImageFilter.GaussianBlur(radius).filter(image), radius a fraction:
\* a radius of 0 returns a copy of the image.
GaussianBlur(im, radius) ==
    IF radius[1] = 0 THEN {im} ELSE SmoothingOutcomes(im)

\* astype(np.uint8) of num / den with the np.clip before it left out: the
\* truncated value, whatever its size.
ClipTrunc_unclipped(num, den) ==
    IF num <= 0 THEN 0 - ((0 - num) \div den) ELSE num \div den

\* np.clip(x, 0, 255).astype(np.uint8) of the float64 x = num / den (den > 0)
\* taken as exact.
ClipTrunc(num, den) ==
    IF num <= 0 THEN 0
    ELSE IF num >= 255 * den THEN 255
    ELSE num \div den

---------------------------------------------------------------------------
(* VisualDegradationGenerator (OpenCV images: a pixel is <<b, g, r>>) *)

\* blur_radius = 0.1 + (level / 100.0) * 19.9, as a fraction over 1000.
blur_radius(level) ==
    <<100 + 199 * level, 1000>>

degrade_sharpness(im, level) ==
    IF level = 0 THEN {im} ELSE GaussianBlur(im, blur_radius(level))

\* brightness_factor with the darkening formula at every level.
brightness_factor_single_band(level) ==
    <<500 - 8 * level, 500>>

\* brightness_factor as a fraction over 500.
brightness_factor(level) ==
    IF level <= 50 THEN <<500 - 8 * level, 500>>
    ELSE <<500 + 15 * (level - 50), 500>>

brightness_adjusted(im, level) ==
    LET f == brightness_factor(level)
    IN PerPixel(im, LAMBDA p :
          PixelChoices(FloatTrunc(p[1] * f[1], f[2]),
                       FloatTrunc(p[2] * f[1], f[2]),
                       FloatTrunc(p[3] * f[1], f[2])))

degrade_brightness(im, level) ==
    IF level = 0 THEN {im} ELSE brightness_adjusted(im, level)

\* contrast_factor = 1.0 - (level / 100.0) * 0.99, as a fraction over 10000.
contrast_factor(level) ==
    <<10000 - 99 * level, 10000>>

\* Sum of all channel values; np.mean(image) is ChannelSum / (3 * pixels).
ChannelSum(im) ==
    SumSeq([ k \in 1..Len(im) |-> im[k][1] + im[k][2] + im[k][3] ])

\* (image - mean) * contrast_factor + mean, clipped and truncated.
contrast_adjusted(im, level) ==
    LET f == contrast_factor(level)
        n == 3 * Len(im)
        total == ChannelSum(im)
        Adj(v) == FloatTrunc((v * n - total) * f[1] + total * f[2], n * f[2])
    IN PerPixel(im, LAMBDA p : PixelChoices(Adj(p[1]), Adj(p[2]), Adj(p[3])))

degrade_contrast(im, level) ==
    IF level = 0 THEN {im} ELSE contrast_adjusted(im, level)

\* cv2.cvtColor(image, cv2.COLOR_BGR2HSV) on one 8-bit pixel: H in 0..179
\* (degrees / 2), S and V in 0..255, each rounded to the nearest integer.
BGR2HSV(p) ==
    LET b == p[1]
        g == p[2]
        r == p[3]
        v == Max2(b, Max2(g, r))
        diff == v - Min2(b, Min2(g, r))
        hnum == IF v = r THEN g - b
                ELSE IF v = g THEN (b - r) + 2 * diff
                ELSE (r - g) + 4 * diff
        h == IF diff = 0 THEN 0 ELSE (60 * hnum + diff) \div (2 * diff)
    IN << IF h < 0 THEN h + 180 ELSE h,
          IF v = 0 THEN 0 ELSE RoundDiv(255 * diff, v),
          v >>

\* cv2.cvtColor(hsv, cv2.COLOR_HSV2BGR) on one 8-bit pixel: the sector of
\* the hue picks which of v, v(1-s), v(1-sf), v(1-s(1-f)) goes to b, g, r.
HSV2BGR(hsv) ==
    LET sector == (hsv[1] \div 30) % 6
        hf == hsv[1] % 30
        sat == hsv[2]
        val == hsv[3]
        tab == << val * 7650,
                  val * 30 * (255 - sat),
                  val * (7650 - sat * hf),
                  val * (7650 - sat * (30 - hf)) >>
        sector_data == << <<2, 4, 1>>, <<2, 1, 3>>, <<4, 1, 2>>,
                          <<1, 3, 2>>, <<1, 2, 4>>, <<3, 2, 1>> >>
        pick == sector_data[sector + 1]
    IN IF sat = 0 THEN <<val, val, val>>
       ELSE << RoundDiv(tab[pick[1]], 7650),
               RoundDiv(tab[pick[2]], 7650),
               RoundDiv(tab[pick[3]], 7650) >>

\* hue_shift = (level / 100.0) * 360 - 180, as a fraction over 5.
hue_shift(level) ==
    <<18 * level - 900, 5>>

\* (hsv[:, :, 0] + hue_shift) % 180 for a hue h, in the unit of hue_shift:
\* the remainder has the sign of the divisor.
shifted_hue(h, level) ==
    LET shift == hue_shift(level)
    IN (shift[2] * h + shift[1]) % (180 * shift[2])

\* saturation_factor = 0.1 + (level / 100.0) * 2.9, as a fraction over 1000.
saturation_factor(level) ==
    <<100 + 29 * level, 1000>>

\* The body of degrade_color_distortion after the level-0 return: hue
\* shifted modulo 180, saturation scaled and clipped, both truncated by
\* astype(np.uint8), then back to BGR.
color_distorted(im, level) ==
    PerPixel(im, LAMBDA p :
        LET hsv == BGR2HSV(p)
            f == saturation_factor(level)
            hue == shifted_hue(hsv[1], level) \div hue_shift(level)[2]
        IN { HSV2BGR(<<hue, sat, hsv[3]>>) :
               sat \in FloatTrunc(hsv[2] * f[1], f[2]) })

\* degrade_color_distortion without its `if level == 0: return image`.
degrade_color_distortion_unguarded(im, level) ==
    color_distorted(im, level)

degrade_color_distortion(im, level) ==
    IF level = 0 THEN {im} ELSE color_distorted(im, level)

\* The six channel biases of degrade_color_shift, chosen by level % 6.
\* Multipliers: 1 + i = (100 + level) / 100, 1 - 0.3 i = (1000 - 3 level)
\* / 1000, 1 - 0.5 i = (200 - level) / 200, with i = level / 100.
color_shifted(im, level) ==
    LET shift_type == level % 6
        Up(v) == FloatTrunc(v * (100 + level), 100)
        Down3(v) == FloatTrunc(v * (1000 - 3 * level), 1000)
        Down5(v) == FloatTrunc(v * (200 - level), 200)
    IN PerPixel(im, LAMBDA p :
        CASE shift_type = 0 -> PixelChoices({p[1]}, Down3(p[2]), Up(p[3]))
          [] shift_type = 1 -> PixelChoices({p[1]}, Up(p[2]), Down3(p[3]))
          [] shift_type = 2 -> PixelChoices(Up(p[1]), Down3(p[2]), {p[3]})
          [] shift_type = 3 -> PixelChoices(Down5(p[1]), {p[2]}, {p[3]})
          [] shift_type = 4 -> PixelChoices({p[1]}, {p[2]}, Down5(p[3]))
          [] OTHER -> PixelChoices({p[1]}, Down5(p[2]), {p[3]}))

degrade_color_shift(im, level) ==
    IF level = 0 THEN {im} ELSE color_shifted(im, level)

\* scale_factor = 1.0 - (level / 100.0) * 0.95, as a fraction over 2000.
scale_factor(level) ==
    <<2000 - 19 * level, 2000>>

\* new_w = int(w * scale_factor) and new_h likewise, without the max(.., 8).
downsampled_size_unfloored(original_size, level) ==
    LET f == scale_factor(level)
    IN << (original_size[1] * f[1]) \div f[2],
          (original_size[2] * f[1]) \div f[2] >>

\* new_w = max(int(w * scale_factor), 8) and new_h likewise; the float
\* product truncates to the exact floor for sides below 625.
downsampled_size(original_size, level) ==
    LET f == scale_factor(level)
    IN << Max2((original_size[1] * f[1]) \div f[2], 8),
          Max2((original_size[2] * f[1]) \div f[2], 8) >>

\* cv2.resize to (new_w, new_h) with INTER_AREA, then back to (w, h) with
\* INTER_LINEAR: the returned image has the original size.
degrade_resolution(im, level) ==
    IF level = 0 THEN {im} ELSE SmoothingOutcomes(im)

degradation_types ==
    { "sharpness", "brightness", "contrast", "color_distortion",
      "color_shift", "resolution" }

\* The buffer a degrader returns: each begins with
\* `if level == 0: return image`, the array it was given; past level 0 each
\* builds a new array.
returned_buffer(level) ==
    IF level = 0 THEN "input" ELSE "new"

\* degradation_methods[degradation_type](image, level)
degradation_methods(kind, im, level) ==
    CASE kind = "sharpness" -> degrade_sharpness(im, level)
      [] kind = "brightness" -> degrade_brightness(im, level)
      [] kind = "contrast" -> degrade_contrast(im, level)
      [] kind = "color_distortion" -> degrade_color_distortion(im, level)
      [] kind = "color_shift" -> degrade_color_shift(im, level)
      [] kind = "resolution" -> degrade_resolution(im, level)

\* One call method(image, level) of generate_degraded_dataset.
ApplyDegradation(kind, level) ==
    /\ Idle
    /\ image # <<>>
    /\ output' \in degradation_methods(kind, image, level)
    /\ applied' = [generator |-> "VisualDegradationGenerator",
                   kind |-> kind, level |-> level, improved |-> FALSE]
    /\ resized' = IF kind = "resolution" /\ level # 0
                  THEN <<downsampled_size(shape, level), shape>>
                  ELSE <<>>
    /\ output_ref' = returned_buffer(level)
    /\ UNCHANGED <<image, rng, undefined, shape, mode, raised>>
    /\ UNCHANGED <<sweep_vars, sequencer_vars, handler_vars>>

---------------------------------------------------------------------------
(* ColorBlindnessSimulator (PIL images: a pixel is <<r, g, b>>).
   Matrix entries are written in millionths; a severity is step / 100 and is
   written as the percentage `severity`. *)

protanopia_matrix ==
    << <<566670, 433330, 0>>,
       <<558330, 441670, 0>>,
       <<0, 241670, 758330>> >>

deuteranopia_matrix ==
    << <<625000, 375000, 0>>,
       <<700000, 300000, 0>>,
       <<0, 300000, 700000>> >>

tritanopia_matrix ==
    << <<950000, 50000, 0>>,
       <<0, 433330, 566670>>,
       <<0, 475000, 525000>> >>

improved_protanopia ==
    << <<152286, 1052583, -204868>>,
       <<114503, 786281, 99216>>,
       <<-3882, -48116, 1051998>> >>

improved_deuteranopia ==
    << <<367322, 860646, -227968>>,
       <<280085, 672501, 47413>>,
       <<-11820, 42940, 968881>> >>

improved_tritanopia ==
    << <<1255528, -76749, -178779>>,
       <<-78411, 930809, 147602>>,
       <<4733, 691367, 303900>> >>

Transposed(m) ==
    [ i \in 1..3 |-> [ j \in 1..3 |-> m[j][i] ] ]

\* floor((s * d + e) / 10^8), computed in two halves to stay in 32 bits.
ScaledFloor(s, d, e) ==
    LET a == d \div 10000
        b == d % 10000
    IN (s * a + (s * b + e) \div 10000) \div 10000

\* An upper bound, in millionths, of the float32 rounding of a quantity of
\* x millionths (relative error 2^-24 < 1 / 8000000 per rounding).
RoundingBound(x) ==
    (x + 7999999) \div 8000000

\* np.clip(x, 0, 1) followed by (x * 255).astype(np.uint8).
ClipByte(x) ==
    Max2(0, Min2(255, x))

\* One output channel of
\*     pixels = np.array(image, dtype=np.float32) / 255.0
\*     transformed = np.dot(pixels, weights_T)      (weights = weights_T.T)
\*     if severity < 1.0: (1 - severity) * pixels + severity * transformed
\* for the pixel p and the row `row` of weights.
\* float32(v) / 255 is the 8-bit pattern of v repeated, so its 24-bit
\* rounding is upward: the stored channel lies in [v, v + RoundingBound].
\* The product (1 - severity) * pixels is rounded to float32 again unless
\* 1 - severity is 1.0; the float64 sum is good to less than a millionth.
\* The result is the set { floor(lowest), floor(highest) } of what the
\* arithmetic can give.
blended_channel(p, row, v, severity) ==
    LET exact == row[1] * p[1] + row[2] * p[2] + row[3] * p[3]
        Pos(j) == IF row[j] > 0 THEN row[j] * p[j] ELSE 0
        Neg(j) == IF row[j] < 0 THEN (0 - row[j]) * p[j] ELSE 0
        up == RoundingBound(Pos(1) + Pos(2) + Pos(3))
        down == RoundingBound(Neg(1) + Neg(2) + Neg(3))
        own == RoundingBound(v * 1000000)
        again == IF severity = 0 THEN 0 ELSE own
        lowest == ScaledFloor(severity, exact - down - 1 - v * 1000000,
                              0 - (100 - severity) * again)
        highest == ScaledFloor(severity, exact + up - v * 1000000,
                               (100 - severity) * (own + again))
    IN { ClipByte(v + lowest), ClipByte(v + highest) }

\* Number of bands of a PIL mode.
bands(m) ==
    CASE m = "L" -> 1
      [] m = "RGB" -> 3
      [] m = "RGBA" -> 4

\* np.array(image).shape for an image of PIL mode m and size
\* original_size = <<width, height>>: two-dimensional for a single band.
array_shape(m, original_size) ==
    IF bands(m) = 1 THEN <<original_size[2], original_size[1]>>
    ELSE <<original_size[2], original_size[1], bands(m)>>

\* The format check with the test of the last dimension left out.
is_rgb_of_any_depth(original_shape) ==
    Len(original_shape) = 3

\* len(original_shape) == 3 and original_shape[2] == 3
is_rgb(original_shape) ==
    Len(original_shape) = 3 /\ original_shape[3] = 3

matrix_applied(im, weights, severity) ==
    PerPixel(im, LAMBDA p :
        PixelChoices(blended_channel(p, weights[1], p[1], severity),
                     blended_channel(p, weights[2], p[2], severity),
                     blended_channel(p, weights[3], p[3], severity)))

\* apply_colorblindness_matrix with np.dot(pixels, matrix) in place of
\* np.dot(pixels, matrix.T).
apply_colorblindness_matrix_untransposed(im, matrix, severity) ==
    matrix_applied(im, Transposed(matrix),
                   IF severity < 100 THEN severity ELSE 100)

\* The blend is skipped unless severity < 1.0: from 1.0 upwards the result
\* is the transformed image.
apply_colorblindness_matrix(im, matrix, severity) ==
    matrix_applied(im, matrix, IF severity < 100 THEN severity ELSE 100)

simulate_protanopia(im, severity, improved) ==
    apply_colorblindness_matrix(im,
        IF improved THEN improved_protanopia ELSE protanopia_matrix, severity)

simulate_deuteranopia(im, severity, improved) ==
    apply_colorblindness_matrix(im,
        IF improved THEN improved_deuteranopia ELSE deuteranopia_matrix,
        severity)

simulate_tritanopia(im, severity, improved) ==
    apply_colorblindness_matrix(im,
        IF improved THEN improved_tritanopia ELSE tritanopia_matrix, severity)

simulation_functions(colorblind_type, im, severity, improved) ==
    CASE colorblind_type = "protanopia" ->
             simulate_protanopia(im, severity, improved)
      [] colorblind_type = "deuteranopia" ->
             simulate_deuteranopia(im, severity, improved)
      [] colorblind_type = "tritanopia" ->
             simulate_tritanopia(im, severity, improved)

\* One call sim_func(image, severity) of a gradient of 100 steps, with the
\* basic or the improved matrix.
ApplyColorblind(colorblind_type, improved, severity) ==
    /\ Idle
    /\ image # <<>>
    /\ IF is_rgb(array_shape(mode, shape))
       THEN /\ output' \in simulation_functions(colorblind_type, image,
                                                severity, improved)
            /\ raised' = "none"
       ELSE /\ output' = <<>>
            /\ raised' = "ValueError"
    /\ applied' = [generator |-> "ColorBlindnessSimulator",
                   kind |-> colorblind_type, level |-> severity,
                   improved |-> improved]
    /\ output_ref' = IF raised' = "none" THEN "new" ELSE "none"
    /\ UNCHANGED <<image, rng, undefined, shape, resized, mode>>
    /\ UNCHANGED <<sweep_vars, sequencer_vars, handler_vars>>

---------------------------------------------------------------------------
(* NoiseGradientGenerator (PIL images: a pixel is <<r, g, b>>).
   An intensity is the fraction <<i, 99>> of generate_gradients_for_image.
   The random source is a stream of numbers fixed by its state `r`; the n-th
   number of the stream is read from a table. *)

RngStates == 2

\* Standard normal draws, in tenths.
NormalTable ==
    <<0, 7, -12, 3, -4, 18, -9, 25, -1, 11, -21>>

standard_normal(r, n) ==
    NormalTable[((5 * r + n) % Len(NormalTable)) + 1]

\* Uniform draws in [0, 1), in thousandths.
UniformTable ==
    <<0, 999, 500, 13, 987, 250, 731>>

random_sample(r, n) ==
    UniformTable[((3 * r + n) % Len(UniformTable)) + 1]

\* Offsets of a Poisson draw from the floor of its mean.
PoissonTable ==
    <<0, 1, -1, 2, -2>>

\* np.random.poisson(lam) for lam = num / den >= 0: always 0 for lam = 0.
poisson(r, n, num, den) ==
    IF num = 0 THEN 0
    ELSE Max2(0, (num \div den) + PoissonTable[((r + n) % Len(PoissonTable)) + 1])

\* What astype(np.uint8) gives for NaN: the C conversion is undefined, the
\* all-zero and the all-one byte stand for what builds produce.
NaNCast ==
    {0, 255}

\* The n-th draw belongs to channel c of pixel k.
DrawIndex(k, c) ==
    3 * (k - 1) + c

\* noise = np.random.normal(0, intensity * 50, shape); clip(img + noise).
apply_gaussian_noise(im, intensity, r) ==
    { [ k \in 1..Len(im) |-> [ c \in 1..3 |->
          ClipTrunc(10 * intensity[2] * im[k][c]
                      + 50 * intensity[1] * standard_normal(r, DrawIndex(k, c)),
                    10 * intensity[2]) ] ] }

\* The fraction intensity * 1 in place of intensity * 0.05.
salt_pepper_fraction_whole(intensity) ==
    intensity

\* intensity * 0.05, the fraction of pixels of each colour.
salt_pepper_fraction(intensity) ==
    <<intensity[1], 20 * intensity[2]>>

\* salt_mask = noise_mask < intensity * 0.05, noise_mask in thousandths.
salt_mask(noise_mask, intensity) ==
    LET f == salt_pepper_fraction(intensity)
    IN f[2] * noise_mask < 1000 * f[1]

\* pepper_mask = noise_mask > 1 - intensity * 0.05.
pepper_mask(noise_mask, intensity) ==
    LET f == salt_pepper_fraction(intensity)
    IN f[2] * noise_mask > 1000 * (f[2] - f[1])

\* noise_mask = np.random.random(shape[:2]): one draw for each pixel, the
\* first pixel taking the first draw.  img_array[salt_mask] = 255, then
\* img_array[pepper_mask] = 0: pepper is written last.
apply_salt_pepper_noise(im, intensity, r) ==
    { [ k \in 1..Len(im) |->
          LET noise_mask == random_sample(r, k - 1)
          IN IF pepper_mask(noise_mask, intensity) THEN <<0, 0, 0>>
             ELSE IF salt_mask(noise_mask, intensity) THEN <<255, 255, 255>>
             ELSE im[k] ] }

\* np.random.poisson(img * intensity * 0.1) / (intensity * 0.1): at
\* intensity 0 this is 0 / 0.0, NaN in every channel (numpy warns, it does
\* not raise), and the cast of NaN to uint8 is undefined.
apply_poisson_noise(im, intensity, r) ==
    IF intensity[1] = 0
    THEN ImageChoices([ k \in 1..Len(im) |->
                          PixelChoices(NaNCast, NaNCast, NaNCast) ])
    ELSE { [ k \in 1..Len(im) |-> [ c \in 1..3 |->
             ClipTrunc(10 * intensity[2]
                         * poisson(r, DrawIndex(k, c), im[k][c] * intensity[1],
                                   10 * intensity[2]),
                       intensity[1]) ] ] }

\* apply_poisson_noise divides by intensity * 0.1.
poisson_divides_by_zero(intensity) ==
    intensity[1] = 0

\* noise = randn(shape) * intensity * 20; img + img * noise / 100.
apply_speckle_noise(im, intensity, r) ==
    { [ k \in 1..Len(im) |-> [ c \in 1..3 |->
          ClipTrunc(50 * intensity[2] * im[k][c]
                      + im[k][c] * intensity[1]
                          * standard_normal(r, DrawIndex(k, c)),
                    50 * intensity[2]) ] ] }

\* blur_radius = intensity * 5
apply_blur_effect(im, intensity) ==
    GaussianBlur(im, <<5 * intensity[1], intensity[2]>>)

\* image.resize(size, Image.NEAREST) of an image of shape `from`, pixels in
\* raster order: an output pixel takes the source pixel under its centre.
resize_nearest(im, from, size) ==
    [ j \in 1..(size[1] * size[2]) |->
        LET x == (j - 1) % size[1]
            y == (j - 1) \div size[1]
            sx == ((2 * x + 1) * from[1]) \div (2 * size[1])
            sy == ((2 * y + 1) * from[2]) \div (2 * size[2])
        IN im[sy * from[1] + sx + 1] ]

\* small_size = (max(1, original_size[0] // pixel_size),
\*               max(1, original_size[1] // pixel_size))
small_size(original_size, pixel_size) ==
    << Max2(1, original_size[1] \div pixel_size),
       Max2(1, original_size[2] \div pixel_size) >>

\* resized = image.resize(small_size, Image.NEAREST);
\* resized.resize(original_size, Image.NEAREST)
pixelated(im, original_size, pixel_size) ==
    resize_nearest(resize_nearest(im, original_size,
                                  small_size(original_size, pixel_size)),
                   small_size(original_size, pixel_size), original_size)

\* pixel_size = max(1, int(intensity * 50))
pixelation_pixel_size(intensity) ==
    Max2(1, (50 * intensity[1]) \div intensity[2])

apply_pixelation(im, original_size, intensity) ==
    { pixelated(im, original_size, pixelation_pixel_size(intensity)) }

\* shift = intensity * 50; each channel moves by random.uniform(-shift,
\* shift) = -shift + 2 * shift * random().
apply_color_shift(im, intensity, r) ==
    { [ k \in 1..Len(im) |-> [ c \in 1..3 |->
          ClipTrunc(20 * intensity[2] * im[k][c]
                      + intensity[1] * (2 * random_sample(r, c) - 1000),
                    20 * intensity[2]) ] ] }

\* image.convert("L") of one pixel (ITU-R 601-2 luma in 16-bit fixed
\* point).
luma(p) ==
    (p[1] * 19595 + p[2] * 38470 + p[3] * 7471 + 32768) \div 65536

\* A float32 holds num / den exactly when den, in lowest terms, is a power
\* of two.
Dyadic(den) ==
    den \in {1, 2, 4, 8, 16, 32, 64}

\* One channel of Image.blend(degenerate, image, alpha) as ImageEnhance
\* calls it: (UINT8)(d + alpha * (v - d)) in float32, clipped to 0..255 when
\* alpha > 1.  alpha is a fraction in lowest terms.
blend(d, v, alpha) ==
    IF v = d \/ Dyadic(alpha[2])
    THEN { ClipTrunc(d * alpha[2] + alpha[1] * (v - d), alpha[2]) }
    ELSE FloatTrunc(d * alpha[2] + alpha[1] * (v - d), alpha[2])

\* enhancer.enhance(factor) with the degenerate image given pixel by pixel.
enhance(im, degenerate, factor) ==
    ImageChoices([ k \in 1..Len(im) |->
        PixelChoices(blend(degenerate[k][1], im[k][1], factor),
                     blend(degenerate[k][2], im[k][2], factor),
                     blend(degenerate[k][3], im[k][3], factor)) ])

\* ImageEnhance.Contrast: a gray image of the rounded mean luma.
contrast_degenerate(im) ==
    LET total == SumSeq([ k \in 1..Len(im) |-> luma(im[k]) ])
        mean == RoundDiv(total, Len(im))
    IN [ k \in 1..Len(im) |-> <<mean, mean, mean>> ]

\* ImageEnhance.Brightness: a black image.
brightness_degenerate(im) ==
    [ k \in 1..Len(im) |-> <<0, 0, 0>> ]

\* ImageEnhance.Color: the image converted to "L" and back.
color_degenerate(im) ==
    [ k \in 1..Len(im) |-> <<luma(im[k]), luma(im[k]), luma(im[k])>> ]

\* contrast_factor = 0.5 + intensity * 1.5
contrast_variation_factor(intensity) ==
    Frac(intensity[2] + 3 * intensity[1], 2 * intensity[2])

apply_contrast_variation(im, intensity) ==
    enhance(im, contrast_degenerate(im), contrast_variation_factor(intensity))

\* brightness_factor = 1.0 + intensity * 0.7 in place of 0.3 + intensity * 1.4
brightness_variation_factor_from_one(intensity) ==
    Frac(10 * intensity[2] + 7 * intensity[1], 10 * intensity[2])

\* brightness_factor = 0.3 + intensity * 1.4
brightness_variation_factor(intensity) ==
    Frac(3 * intensity[2] + 14 * intensity[1], 10 * intensity[2])

apply_brightness_variation(im, intensity) ==
    enhance(im, brightness_degenerate(im),
            brightness_variation_factor(intensity))

\* saturation_factor = intensity * 2.0
saturation_variation_factor(intensity) ==
    Frac(2 * intensity[1], intensity[2])

apply_saturation_variation(im, intensity) ==
    enhance(im, color_degenerate(im), saturation_variation_factor(intensity))

noise_types ==
    { "gaussian_noise", "salt_pepper_noise", "poisson_noise", "speckle_noise" }

transform_types ==
    noise_types \cup
    { "blur_effect", "pixelation", "color_shift", "contrast_variation",
      "brightness_variation", "saturation_variation" }

\* The transforms that read the random source.
random_types ==
    noise_types \cup { "color_shift" }

\* self.transformations[transform_type](original_image, intensity)
transformations(transform_type, im, original_size, intensity, r) ==
    CASE transform_type = "gaussian_noise" ->
             apply_gaussian_noise(im, intensity, r)
      [] transform_type = "salt_pepper_noise" ->
             apply_salt_pepper_noise(im, intensity, r)
      [] transform_type = "poisson_noise" ->
             apply_poisson_noise(im, intensity, r)
      [] transform_type = "speckle_noise" ->
             apply_speckle_noise(im, intensity, r)
      [] transform_type = "blur_effect" -> apply_blur_effect(im, intensity)
      [] transform_type = "pixelation" ->
             apply_pixelation(im, original_size, intensity)
      [] transform_type = "color_shift" ->
             apply_color_shift(im, intensity, r)
      [] transform_type = "contrast_variation" ->
             apply_contrast_variation(im, intensity)
      [] transform_type = "brightness_variation" ->
             apply_brightness_variation(im, intensity)
      [] transform_type = "saturation_variation" ->
             apply_saturation_variation(im, intensity)

\* One iteration of generate_gradients_for_image: intensity = i / 99.0 and
\* transform_func(original_image, intensity).
ApplyNoiseGradient(transform_type, i) ==
    /\ Idle
    /\ image # <<>>
    /\ output' \in transformations(transform_type, image, shape, <<i, 99>>,
                                    rng)
    /\ resized' = IF transform_type = "pixelation"
                  THEN << small_size(shape, pixelation_pixel_size(<<i, 99>>)),
                          shape >>
                  ELSE <<>>
    /\ undefined' = (transform_type = "poisson_noise"
                       /\ poisson_divides_by_zero(<<i, 99>>))
    /\ rng' = IF transform_type \in random_types
              THEN (rng + 1) % RngStates ELSE rng
    /\ applied' = [generator |-> "NoiseGradientGenerator",
                   kind |-> transform_type, level |-> i, improved |-> FALSE]
    /\ output_ref' = "new"
    /\ UNCHANGED <<image, shape, mode, raised>>
    /\ UNCHANGED <<sweep_vars, sequencer_vars, handler_vars>>

---------------------------------------------------------------------------
(* fast_noise_generator *)

\* intensity = gradient_level / 99.0; Gaussian noise of sigma intensity * 25.
apply_noise_gradient(im, gradient_level, r) ==
    { [ k \in 1..Len(im) |-> [ c \in 1..3 |->
          ClipTrunc(10 * 99 * im[k][c]
                      + 25 * gradient_level
                          * standard_normal(r, DrawIndex(k, c)),
                    10 * 99) ] ] }

\* pixel_size = max(1, int(intensity * 20) + 1)
pixel_manipulation_pixel_size(gradient_level) ==
    Max2(1, ((20 * gradient_level) \div 99) + 1)

apply_pixel_manipulation(im, original_size, gradient_level) ==
    { pixelated(im, original_size,
                pixel_manipulation_pixel_size(gradient_level)) }

\* One call apply_noise_gradient(image, i) of process_single_image.
\* np.random.normal raises ValueError for a negative scale, which
\* intensity * 25 is for a negative gradient_level.
ApplyFastNoise(gradient_level) ==
    /\ Idle
    /\ image # <<>>
    /\ IF gradient_level < 0
       THEN /\ output' = <<>>
            /\ raised' = "ValueError"
            /\ rng' = rng
       ELSE /\ output' \in apply_noise_gradient(image, gradient_level, rng)
            /\ raised' = "none"
            /\ rng' = (rng + 1) % RngStates
    /\ applied' = [generator |-> "fast_noise_generator",
                   kind |-> "noise", level |-> gradient_level,
                   improved |-> FALSE]
    /\ output_ref' = IF raised' = "none" THEN "new" ELSE "none"
    /\ UNCHANGED <<image, undefined, shape, resized, mode>>
    /\ UNCHANGED <<sweep_vars, sequencer_vars, handler_vars>>

\* One call apply_pixel_manipulation(image, i) of process_single_image.
ApplyFastPixel(gradient_level) ==
    /\ Idle
    /\ image # <<>>
    /\ output' \in apply_pixel_manipulation(image, shape, gradient_level)
    /\ resized' = << small_size(shape,
                         pixel_manipulation_pixel_size(gradient_level)),
                     shape >>
    /\ applied' = [generator |-> "fast_noise_generator",
                   kind |-> "pixel", level |-> gradient_level,
                   improved |-> FALSE]
    /\ output_ref' = "new"
    /\ UNCHANGED <<image, rng, undefined, shape, mode, raised>>
    /\ UNCHANGED <<sweep_vars, sequencer_vars, handler_vars>>

---------------------------------------------------------------------------
(* complete_noise_dataset *)

\* pixel_size = max(1, int(intensity * 25) + 1), intensity = level / 99.0
complete_pixel_size(level) ==
    Max2(1, ((25 * level) \div 99) + 1)

\* The three branches of the loop body of generate_complete_dataset:
\* Gaussian noise of sigma intensity * 30, pixelation, blur of radius
\* intensity * 8.
complete_transformed(transform_type, im, original_size, level, r) ==
    CASE transform_type = "noise" ->
             { [ k \in 1..Len(im) |-> [ c \in 1..3 |->
                   ClipTrunc(10 * 99 * im[k][c]
                               + 30 * level
                                   * standard_normal(r, DrawIndex(k, c)),
                             10 * 99) ] ] }
      [] transform_type = "pixel" ->
             { pixelated(im, original_size, complete_pixel_size(level)) }
      [] transform_type = "blur" -> GaussianBlur(im, <<8 * level, 99>>)

\* One iteration of `for level in range(100)` of generate_complete_dataset.
ApplyCompleteTransform(transform_type, level) ==
    /\ Idle
    /\ image # <<>>
    /\ output' \in complete_transformed(transform_type, image, shape, level,
                                        rng)
    /\ resized' = IF transform_type = "pixel"
                  THEN <<small_size(shape, complete_pixel_size(level)), shape>>
                  ELSE <<>>
    /\ rng' = IF transform_type = "noise" THEN (rng + 1) % RngStates ELSE rng
    /\ applied' = [generator |-> "complete_noise_dataset",
                   kind |-> transform_type, level |-> level,
                   improved |-> FALSE]
    /\ output_ref' = "new"
    /\ UNCHANGED <<image, undefined, shape, mode, raised>>
    /\ UNCHANGED <<sweep_vars, sequencer_vars, handler_vars>>

---------------------------------------------------------------------------
(* The transforms as a state machine: a source image and a state of the
   random source are drawn, then one transform is called on them. *)

NoSweep ==
    /\ evaluator = "none"
    /\ levels = <<0>>
    /\ n_images = 1
    /\ img = 1
    /\ step = 0
    /\ predictions = <<>>
    /\ results = <<>>
    /\ batch_results = <<>>
    /\ failure_threshold = None
    /\ recovery_threshold = None
    /\ stats = <<0, 0>>
    /\ pc = "done"

InitTransform ==
    /\ NoSweep
    /\ NoSequence
    /\ NoHandler
    /\ image \in PaletteImages
    /\ rng \in 0..(RngStates - 1)
    /\ applied = [generator |-> "none", kind |-> "none", level |-> 0,
                  improved |-> FALSE]
    /\ output = <<>>
    /\ undefined = FALSE
    /\ shape = <<Len(image), 1>>
    /\ resized = <<>>
    /\ mode = "RGB"
    /\ raised = "none"
    /\ output_ref = "none"

NextTransform ==
    \/ Idle /\ \E kind \in degradation_types, level \in 0..100 :
                  ApplyDegradation(kind, level)
    \/ Idle /\ \E t \in 1..Len(colorblind_types), improved \in BOOLEAN,
                  severity \in 0..100 :
                  ApplyColorblind(colorblind_types[t], improved, severity)
    \/ Idle /\ \E transform_type \in transform_types, i \in 0..99 :
                  ApplyNoiseGradient(transform_type, i)
    \/ Idle /\ \E gradient_level \in 0..99 : ApplyFastNoise(gradient_level)
    \/ Idle /\ \E gradient_level \in 0..99 : ApplyFastPixel(gradient_level)
    \/ Idle /\ \E transform_type \in {"noise", "pixel", "blur"},
                  level \in 0..99 :
                  ApplyCompleteTransform(transform_type, level)

SpecTransform == InitTransform /\ [][NextTransform]_vars

\* The calls that resize, on images of every shape with one side up to
\* MaxSide and the other up to 2; the pixels repeat the palette in raster
\* order.
MaxSide == 12

Shapes ==
    { <<w, h>> : w \in 1..MaxSide, h \in 1..2 }
      \cup { <<w, h>> : w \in 1..2, h \in 1..MaxSide }

PatternImage(original_size) ==
    [ j \in 1..(original_size[1] * original_size[2]) |->
        CASE j % 4 = 0 -> <<0, 0, 0>>
          [] j % 4 = 1 -> <<255, 0, 0>>
          [] j % 4 = 2 -> <<10, 128, 200>>
          [] OTHER -> <<201, 30, 99>> ]

InitShape ==
    /\ NoSweep
    /\ NoSequence
    /\ NoHandler
    /\ shape \in Shapes
    /\ image = PatternImage(shape)
    /\ rng = 0
    /\ applied = [generator |-> "none", kind |-> "none", level |-> 0,
                  improved |-> FALSE]
    /\ output = <<>>
    /\ undefined = FALSE
    /\ resized = <<>>
    /\ mode = "RGB"
    /\ raised = "none"
    /\ output_ref = "none"

NextShape ==
    \/ Idle /\ \E level \in 0..100 : ApplyDegradation("resolution", level)
    \/ Idle /\ \E i \in 0..99 : ApplyNoiseGradient("pixelation", i)
    \/ Idle /\ \E gradient_level \in 0..99 : ApplyFastPixel(gradient_level)
    \/ Idle /\ \E level \in 0..99 : ApplyCompleteTransform("pixel", level)

SpecShape == InitShape /\ [][NextShape]_vars

\* The colour simulations alone, over every gray pixel as well.
InitColor ==
    /\ NoSweep
    /\ NoSequence
    /\ NoHandler
    /\ image \in Images
    /\ rng = 0
    /\ applied = [generator |-> "none", kind |-> "none", level |-> 0,
                  improved |-> FALSE]
    /\ output = <<>>
    /\ undefined = FALSE
    /\ shape = <<Len(image), 1>>
    /\ resized = <<>>
    /\ mode = "RGB"
    /\ raised = "none"
    /\ output_ref = "none"

NextColor ==
    Idle /\ \E t \in 1..Len(colorblind_types), improved \in BOOLEAN,
                severity \in 0..100 :
                ApplyColorblind(colorblind_types[t], improved, severity)

SpecColor == InitColor /\ [][NextColor]_vars

----------------------------------------------------------------------------
(* Gradient sequencers: complete_50_illusions_final.py and                 *)
(* fix_incomplete_illusions.py                                             *)
(*                                                                         *)
(* Both loop over the indices of a sequence and compute, for each          *)
(* parameter of the illusion kind independently, a value inside the        *)
(* parameter's declared range.  The model follows one parameter, and two   *)
(* runs of the same sequence side by side, index by index.                 *)

\* self.gradient_count
gradient_count == 100

\* Draws of np.random.beta the model distinguishes: BetaSteps + 1 evenly
\* spaced values of the closed interval [0, 1].
BetaSteps == 2

\* A curve position t is an integer number of units of 1 / TUnit, so that
\* i / 99 is exact; the positions of the other curves are rounded to it.
TUnit == 10000 * (gradient_count - 1)

\* (np.exp(i/20) - 1) / (np.exp(4.95) - 1) for i = 20..39.
exp_curve ==
    << 12136, 13120, 14155, 15242, 16386, 17588, 18852, 20181, 21578, 23046,
       24590, 26213, 27919, 29712, 31598, 33580, 35664, 37854, 40157, 42578 >>

\* np.log(i + 1) / np.log(self.gradient_count) for i = 40..59.
log_curve ==
    << 798328, 803508, 808567, 813509, 818340, 823065, 827688, 832214,
       836647, 840990, 845247, 849422, 853517, 857535, 861480, 865353,
       869158, 872897, 876572, 880185 >>

\* (np.sin(i * np.pi / self.gradient_count) + 1) / 2 for i = 60..79.
sin_curve ==
    << 965773, 960736, 955239, 949289, 942889, 936048, 928772, 921067,
       912942, 904405, 895463, 886127, 876404, 866305, 855839, 845018,
       833851, 822349, 810525, 798389 >>

\* The values np.random.beta(0.5, 0.5) can return.  The global random source
\* is never seeded, so a call can return any of them; Johnk's algorithm
\* returns X / (X + Y), which is 0.0 when X vanishes against Y and 1.0 when
\* Y vanishes against X.
BetaDraws ==
    { (k * TUnit) \div BetaSteps : k \in 0..BetaSteps }

\* The curve position of index i before clamping; draw is the value the
\* random source returns if it is asked.
curve_position(i, draw) ==
    IF i < 20 THEN (i * TUnit) \div (gradient_count - 1)
    ELSE IF i < 40 THEN exp_curve[i - 19]
    ELSE IF i < 60 THEN log_curve[i - 39]
    ELSE IF i < 80 THEN sin_curve[i - 59]
    ELSE draw

\* t = max(0, min(1, t))
clamped(t) ==
    Max2(0, Min2(TUnit, t))

\* The float64 error of min_val + (max_val - min_val) * 1.0 in units in the
\* last place, for declared ranges given in tenths:
\* 0.2 + (0.9 - 0.2) is 0.8999999999999999 and 0.3 + (0.9 - 0.3) is
\* 0.9000000000000001; the sum is exact for every other declared range.
endpoint_rounding(min_val, max_val) ==
    IF <<min_val, max_val>> = <<2, 9>> THEN -1
    ELSE IF <<min_val, max_val>> = <<3, 9>> THEN 1
    ELSE 0

\* min_val + (max_val - min_val) * t as <<number of units of
\* 1 / (10 * TUnit), float64 error in units in the last place>>.  The error
\* is tracked where it decides a comparison with the declared range: at
\* t = 1.0.  At t = 0.0 the sum is exact.
linear_map(min_val, max_val, t) ==
    << min_val * TUnit + (max_val - min_val) * t,
       IF t = TUnit THEN endpoint_rounding(min_val, max_val) ELSE 0 >>

\* A declared bound taken as it stands.
declared(val) ==
    << val * TUnit, 0 >>

\* generate_gradient_variations without the branches for the first and the
\* last index.
gradient_params_without_endpoints(i, min_val, max_val, draw) ==
    LET t == clamped(curve_position(i, draw))
    IN [ i |-> i, interpolated |-> TRUE, drawn |-> i >= 80, t |-> t,
         value |-> linear_map(min_val, max_val, t) ]

\* The body of the loop over param_ranges in generate_gradient_variations:
\* the entry of one parameter at index i.  t is unset (0) on the branches
\* that do not interpolate.
gradient_params(i, min_val, max_val, draw) ==
    IF i = 0
    THEN [ i |-> i, interpolated |-> FALSE, drawn |-> FALSE, t |-> 0,
           value |-> declared(min_val) ]
    ELSE IF i = gradient_count - 1
    THEN [ i |-> i, interpolated |-> FALSE, drawn |-> FALSE, t |-> 0,
           value |-> declared(max_val) ]
    ELSE LET t == clamped(curve_position(i, draw))
         IN [ i |-> i, interpolated |-> TRUE, drawn |-> i >= 80, t |-> t,
              value |-> linear_map(min_val, max_val, t) ]

\* The body of the loop over param_ranges in fix_illusion: t = i / 99.
fix_params(i, min_val, max_val) ==
    LET t == (i * TUnit) \div 99
    IN [ i |-> i, interpolated |-> TRUE, drawn |-> FALSE, t |-> t,
         value |-> linear_map(min_val, max_val, t) ]

\* Declared ranges of all_illusions, in tenths: illusions 1
\* (Checker_Shadow_Illusion) and 10 (Poggendorff_Illusion).
all_illusions_ranges ==
    { <<3, 18>>, <<2, 9>>, <<200, 500>>, <<3, 9>>, <<2, 8>>, <<400, 1000>> }

\* Declared ranges of fix_illusion, in tenths: Necker_Cube and Rubin_Vase.
fix_illusion_ranges ==
    { <<6, 14>>, <<1, 8>>, <<10, 50>>, <<3, 8>>, <<2, 8>>, <<5, 15>> }

\* One iteration of the loop of generate_gradient_variations, in each of
\* the two runs; each run asks the random source on its own.
GenerateVariation ==
    /\ sequencer = "generate_gradient_variations"
    /\ index < gradient_count
    /\ \E draw1 \in BetaDraws, draw2 \in BetaDraws :
           params' = << gradient_params(index, param_range[1],
                                        param_range[2], draw1),
                        gradient_params(index, param_range[1],
                                        param_range[2], draw2) >>
    /\ index' = index + 1
    /\ UNCHANGED <<sequencer, param_range>>
    /\ UNCHANGED <<sweep_vars, transform_vars, handler_vars>>

\* One iteration of the loop of fix_illusion, in each of the two runs.
FixVariation ==
    /\ sequencer = "fix_illusion"
    /\ index < 100
    /\ params' = << fix_params(index, param_range[1], param_range[2]),
                    fix_params(index, param_range[1], param_range[2]) >>
    /\ index' = index + 1
    /\ UNCHANGED <<sequencer, param_range>>
    /\ UNCHANGED <<sweep_vars, transform_vars, handler_vars>>

\* generate_gradient_variations starts at index 0, fix_illusion at
\* current_count, the number of variations found on disk.
InitGradient ==
    /\ NoSweep
    /\ NoTransform
    /\ NoHandler
    /\ sequencer \in {"generate_gradient_variations", "fix_illusion"}
    /\ param_range \in IF sequencer = "fix_illusion"
                       THEN fix_illusion_ranges ELSE all_illusions_ranges
    /\ index \in IF sequencer = "fix_illusion" THEN 0..99 ELSE {0}
    /\ params = <<>>

NextGradient ==
    \/ GenerateVariation
    \/ FixVariation

SpecGradient == InitGradient /\ [][NextGradient]_vars

----------------------------------------------------------------------------
(* Calls outside the contract: images that are not RGB, levels and         *)
(* severities outside their range, kinds that are not supported.           *)

\* The keys of the simulation_functions dictionary of generate_gradients
\* and of the sim_functions dictionary of analyze_color_contrast.
simulation_function_names ==
    { "protanopia", "deuteranopia", "tritanopia" }

\* The methods of ColorBlindnessSimulator named simulate_<kind> that take
\* (image, severity): what getattr(self.simulator, f'simulate_{kind}')
\* finds.
simulate_methods ==
    simulation_function_names \cup
        { "protanomaly", "deuteranomaly", "tritanomaly" }

\* simulate_protanomaly(image, severity) returns
\* simulate_protanopia(image, severity), and likewise the other two.
simulated_as(colorblind_type) ==
    CASE colorblind_type = "protanomaly" -> "protanopia"
      [] colorblind_type = "deuteranomaly" -> "deuteranopia"
      [] colorblind_type = "tritanomaly" -> "tritanopia"
      [] OTHER -> colorblind_type

\* The exception the look-up of the kind raises in each entry point, "none"
\* if the kind is found.
dispatch_error(entry, colorblind_type) ==
    CASE entry = "generate_gradients" ->
             IF colorblind_type \in simulation_function_names
             THEN "none" ELSE "ValueError"
      [] entry = "analyze_color_contrast" ->
             IF colorblind_type \in simulation_function_names
             THEN "none" ELSE "KeyError"
      [] entry = "calculate_visibility_threshold" ->
             IF colorblind_type \in simulate_methods
             THEN "none" ELSE "AttributeError"

\* The look-up of the kind followed by a call sim_func(image, severity) of
\* the function found, with its default improved = True.
DispatchAndSimulate(entry, colorblind_type, severity) ==
    /\ Idle
    /\ image # <<>>
    /\ LET error == dispatch_error(entry, colorblind_type)
       IN IF error # "none"
          THEN /\ output' = <<>>
               /\ raised' = error
          ELSE IF is_rgb(array_shape(mode, shape))
          THEN /\ output' \in simulation_functions(
                                  simulated_as(colorblind_type), image,
                                  severity, TRUE)
               /\ raised' = "none"
          ELSE /\ output' = <<>>
               /\ raised' = "ValueError"
    /\ applied' = [generator |-> entry, kind |-> colorblind_type,
                   level |-> severity, improved |-> TRUE]
    /\ output_ref' = IF raised' = "none" THEN "new" ELSE "none"
    /\ UNCHANGED <<image, rng, undefined, shape, resized, mode>>
    /\ UNCHANGED <<sweep_vars, sequencer_vars, handler_vars>>

\* generate_gradients(image, colorblind_type): severity = step / num_steps.
GenerateGradients(colorblind_type, severity) ==
    DispatchAndSimulate("generate_gradients", colorblind_type, severity)

\* analyze_color_contrast(image, colorblind_type, severity)
AnalyzeColorContrast(colorblind_type, severity) ==
    DispatchAndSimulate("analyze_color_contrast", colorblind_type, severity)

\* calculate_visibility_threshold(image, colorblind_type): severity runs
\* over np.linspace(0, 1, 101).
CalculateVisibilityThreshold(colorblind_type, severity) ==
    DispatchAndSimulate("calculate_visibility_threshold", colorblind_type,
                        severity)

\* Kinds a caller may request: the supported ones, a colour-vision anomaly
\* and a kind the module does not know.
RequestedTypes ==
    simulation_function_names \cup { "protanomaly", "achromatopsia" }

\* Severities in percent, within [0, 1] and above it.
RequestedSeverities ==
    { 0, 50, 100, 150 }

\* Levels of VisualDegradationGenerator, within 0..100 and outside.
RequestedLevels ==
    { -1, 0, 50, 100, 101 }

\* Gradient levels of fast_noise_generator, within 0..99 and outside.
RequestedGradientLevels ==
    { -1, 0, 50, 99, 100 }

\* Source images: RGB images, a single-band image and an RGBA image, each
\* one row of pixels with one value per band.
InitCalls ==
    /\ NoSweep
    /\ NoSequence
    /\ NoHandler
    /\ mode \in {"L", "RGB", "RGBA"}
    /\ image \in CASE mode = "L" -> { << <<128>> >>, << <<0>>, <<255>> >> }
                   [] mode = "RGBA" -> { << <<10, 128, 200, 255>> >>,
                                         << <<255, 0, 0, 0>>,
                                            <<0, 0, 0, 255>> >> }
                   [] OTHER -> PaletteImages
    /\ rng \in 0..(RngStates - 1)
    /\ applied = [generator |-> "none", kind |-> "none", level |-> 0,
                  improved |-> FALSE]
    /\ output = <<>>
    /\ undefined = FALSE
    /\ shape = <<Len(image), 1>>
    /\ resized = <<>>
    /\ raised = "none"
    /\ output_ref = "none"

\* The degraders read their input with cv2.imread and the fast generator
\* converts its input to RGB, so these are called on three-band images.
NextCalls ==
    \/ Idle /\ \E t \in 1..Len(colorblind_types), improved \in BOOLEAN,
                  severity \in RequestedSeverities :
           ApplyColorblind(colorblind_types[t], improved, severity)
    \/ (Idle /\ mode = "RGB") /\ \E level \in RequestedLevels :
           ApplyDegradation("brightness", level)
    \/ (Idle /\ mode = "RGB") /\ \E gradient_level \in RequestedGradientLevels :
           ApplyFastNoise(gradient_level)
    \/ (Idle /\ mode = "RGB") /\ \E gradient_level \in RequestedGradientLevels :
           ApplyFastPixel(gradient_level)
    \/ Idle /\ \E colorblind_type \in RequestedTypes,
                  severity \in {0, 100} :
           GenerateGradients(colorblind_type, severity)
    \/ Idle /\ \E colorblind_type \in RequestedTypes,
                  severity \in {0, 100} :
           AnalyzeColorContrast(colorblind_type, severity)
    \/ Idle /\ \E colorblind_type \in RequestedTypes,
                  severity \in {0, 100} :
           CalculateVisibilityThreshold(colorblind_type, severity)

SpecCalls == InitCalls /\ [][NextCalls]_vars

----------------------------------------------------------------------------
(* Invocations side by side.  np.random and random are module-level        *)
(* generators: every invocation of the process reads and advances the same *)
(* state `rng`.                                                            *)

\* np.random.beta(0.5, 0.5) read from the random source in state r.
beta_sample(r) ==
    ((r % (BetaSteps + 1)) * TUnit) \div BetaSteps

\* The invocation reads the random source: the noise transforms and
\* apply_color_shift, and the random band of generate_gradient_variations.
reads_random_source(call) ==
    \/ call.generator = "NoiseGradientGenerator" /\ call.kind \in random_types
    \/ call.generator = "Complete50IllusionsGenerator"
         /\ call.level >= 80 /\ call.level < gradient_count - 1

\* What the invocation can return on the image im when the random source
\* is in state r.  For the sequencer the level is the index i and what is
\* returned is the value of param1 of illusion 10, declared (0.3, 0.9).
invoke(call, im, r) ==
    CASE call.generator = "VisualDegradationGenerator" ->
             degradation_methods(call.kind, im, call.level)
      [] call.generator = "ColorBlindnessSimulator" ->
             simulation_functions(call.kind, im, call.level, TRUE)
      [] call.generator = "NoiseGradientGenerator" ->
             transformations(call.kind, im, <<Len(im), 1>>,
                             <<call.level, 99>>, r)
      [] call.generator = "Complete50IllusionsGenerator" ->
             { gradient_params(call.level, 3, 9, beta_sample(r)).value }

\* (generator, kind, level) triples of the colour, photometric, noise and
\* gradient-sequencing components.
ParallelCalls ==
    { <<"VisualDegradationGenerator", "brightness", 50>>,
      <<"ColorBlindnessSimulator", "protanopia", 100>>,
      <<"NoiseGradientGenerator", "gaussian_noise", 50>>,
      <<"NoiseGradientGenerator", "salt_pepper_noise", 99>>,
      <<"Complete50IllusionsGenerator", "param1", 10>>,
      <<"Complete50IllusionsGenerator", "param1", 85>> }

\* Invocation n runs: it computes its output from the image and from the
\* random source as it finds it, and leaves the source advanced.
Invoke(n) ==
    /\ n \in 1..Len(invocations)
    /\ ~invocations[n].done
    /\ \E out \in invoke(invocations[n], image, rng) :
           invocations' = [invocations EXCEPT ![n].done = TRUE,
                                              ![n].output = out]
    /\ rng' = IF reads_random_source(invocations[n])
              THEN (rng + 1) % RngStates ELSE rng
    /\ UNCHANGED <<image, applied, output, undefined, shape, resized, mode,
                   raised, output_ref>>
    /\ UNCHANGED <<generation_vars, dataset_vars, metrics_vars>>
    /\ UNCHANGED <<sweep_vars, sequencer_vars>>

\* Two invocations for different triples on one source image, neither
\* started.
InitParallel ==
    /\ NoSweep
    /\ NoSequence
    /\ image \in PaletteImages
    /\ rng \in 0..(RngStates - 1)
    /\ applied = [generator |-> "none", kind |-> "none", level |-> 0,
                  improved |-> FALSE]
    /\ output = <<>>
    /\ undefined = FALSE
    /\ shape = <<Len(image), 1>>
    /\ resized = <<>>
    /\ mode = "RGB"
    /\ raised = "none"
    /\ output_ref = "none"
    /\ NoGeneration
    /\ NoDataset
    /\ NoMetrics
    /\ \E a \in ParallelCalls : \E b \in ParallelCalls \ {a} :
           invocations =
               << [generator |-> a[1], kind |-> a[2], level |-> a[3],
                   start |-> rng, done |-> FALSE, output |-> <<>>],
                  [generator |-> b[1], kind |-> b[2], level |-> b[3],
                   start |-> rng, done |-> FALSE, output |-> <<>>] >>

NextParallel ==
    \E n \in 1..2 : Invoke(n)

SpecParallel == InitParallel /\ [][NextParallel]_vars

----------------------------------------------------------------------------
(* Gradient generation of the colour-vision datasets: generate_gradients,  *)
(* step2_generate_gradients and process_existing_images.main run the same  *)
(* loop over the steps of one (image, colorblind_type) pair.  The image    *)
(* written at each step is the one ApplyColorblind returns.                *)

\* range(num_steps) in place of range(num_steps + 1).
step_count_without_last(num_steps) ==
    num_steps

\* The number of iterations of `for step in range(num_steps + 1)`.
step_count(num_steps) ==
    num_steps + 1

\* One iteration: severity = step / num_steps, the simulated image is saved
\* under a name that holds the step, and the name is appended.
GenerateStep ==
    /\ generation.colorblind_type # "none"
    /\ ~generation.returned
    /\ Len(generated_files) < step_count(generation.num_steps)
    /\ LET step_ == Len(generated_files)
       IN generated_files' =
              Append(generated_files,
                     [step |-> step_,
                      severity |-> Frac(step_, generation.num_steps)])
    /\ UNCHANGED <<generation, invocations, dataset_vars, metrics_vars>>
    /\ UNCHANGED <<sweep_vars, transform_vars, sequencer_vars>>

\* The loop is exhausted: return generated_files.
ReturnGeneratedFiles ==
    /\ generation.colorblind_type # "none"
    /\ ~generation.returned
    /\ Len(generated_files) >= step_count(generation.num_steps)
    /\ generation' = [generation EXCEPT !.returned = TRUE]
    /\ UNCHANGED <<generated_files, invocations, dataset_vars,
                   metrics_vars>>
    /\ UNCHANGED <<sweep_vars, transform_vars, sequencer_vars>>

\* Step counts: the small ones and the 100 the datasets are built with.
StepCounts ==
    1..MaxLevel \cup {100}

InitGeneration ==
    /\ NoSweep
    /\ NoTransform
    /\ NoSequence
    /\ invocations = <<>>
    /\ \E t \in 1..Len(colorblind_types), n \in StepCounts :
           generation = [colorblind_type |-> colorblind_types[t],
                         num_steps |-> n, returned |-> FALSE]
    /\ generated_files = <<>>
    /\ NoDataset
    /\ NoMetrics

NextGeneration ==
    \/ GenerateStep
    \/ ReturnGeneratedFiles

SpecGeneration == InitGeneration /\ [][NextGeneration]_vars

----------------------------------------------------------------------------
(* VisualDegradationGenerator.generate_degraded_dataset: every image of the *)
(* list that loads is degraded with each of the six methods at each level   *)
(* of range(0, 101); the image written at each step is the one              *)
(* ApplyDegradation returns.                                                *)

\* The keys of the degradation_methods dictionary, in insertion order.
degradation_method_names ==
    << "sharpness", "brightness", "contrast", "color_distortion",
       "color_shift", "resolution" >>

\* 'levels_per_type': 100 of dataset_info.
levels_per_type == 100

\* The last level of `for level in range(0, 101)`.
last_level == 100

\* total_images = len(image_list) * 6 * 100.
total_images(image_list) ==
    Len(image_list) * 6 * 100

\* cv2.imread returned an image: the loops over the methods and the levels
\* start.
ReadImage ==
    /\ ~dataset.saved
    /\ dataset.img_info <= Len(dataset.image_list)
    /\ ~dataset.loaded
    /\ dataset.image_list[dataset.img_info]
    /\ dataset' = [dataset EXCEPT !.loaded = TRUE, !.degradation_type = 1,
                                  !.level = 0]
    /\ UNCHANGED <<degraded_images, invocations, generation_vars,
                   metrics_vars>>
    /\ UNCHANGED <<sweep_vars, transform_vars, sequencer_vars>>

\* cv2.imread returned None: `continue` with the next image.
SkipImage ==
    /\ ~dataset.saved
    /\ dataset.img_info <= Len(dataset.image_list)
    /\ ~dataset.loaded
    /\ ~dataset.image_list[dataset.img_info]
    /\ dataset' = [dataset EXCEPT !.img_info = @ + 1]
    /\ UNCHANGED <<degraded_images, invocations, generation_vars,
                   metrics_vars>>
    /\ UNCHANGED <<sweep_vars, transform_vars, sequencer_vars>>

\* One iteration of the innermost loop: the degraded image is written under
\* a name made of the image, the method and the level, and its record is
\* appended to metadata['degraded_images'].
DegradeAndRecord ==
    /\ ~dataset.saved
    /\ dataset.loaded
    /\ degraded_images' =
           Append(degraded_images,
                  [original_image |-> dataset.img_info,
                   degradation_type |->
                       degradation_method_names[dataset.degradation_type],
                   level |-> dataset.level,
                   filename |->
                       << dataset.img_info,
                          degradation_method_names[dataset.degradation_type],
                          dataset.level >>])
    /\ dataset' =
           IF dataset.level < last_level
           THEN [dataset EXCEPT !.level = @ + 1]
           ELSE IF dataset.degradation_type < Len(degradation_method_names)
           THEN [dataset EXCEPT !.degradation_type = @ + 1, !.level = 0]
           ELSE [dataset EXCEPT !.img_info = @ + 1, !.loaded = FALSE,
                                !.degradation_type = 1, !.level = 0]
    /\ UNCHANGED <<invocations, generation_vars, metrics_vars>>
    /\ UNCHANGED <<sweep_vars, transform_vars, sequencer_vars>>

\* The list is exhausted: the metadata is written to degraded_dataset.json.
SaveMetadata ==
    /\ ~dataset.saved
    /\ dataset.img_info > Len(dataset.image_list)
    /\ dataset' = [dataset EXCEPT !.saved = TRUE]
    /\ UNCHANGED <<degraded_images, invocations, generation_vars,
                   metrics_vars>>
    /\ UNCHANGED <<sweep_vars, transform_vars, sequencer_vars>>

\* The files cv2.imwrite has written: one for each record, under its name.
written_files ==
    { degraded_images[n].filename : n \in 1..Len(degraded_images) }

\* Image lists: for each image whether cv2.imread can load it.
ImageLists ==
    UNION { [1..n -> BOOLEAN] : n \in 0..MaxImages }

InitDataset ==
    /\ NoSweep
    /\ NoTransform
    /\ NoSequence
    /\ invocations = <<>>
    /\ NoGeneration
    /\ NoMetrics
    /\ \E image_list \in ImageLists :
           dataset = [image_list |-> image_list, img_info |-> 1,
                      loaded |-> FALSE, degradation_type |-> 1, level |-> 0,
                      dataset_info |->
                          [total_base_images |-> Len(image_list),
                           levels_per_type |-> levels_per_type,
                           total_generated_images |->
                               total_images(image_list)],
                      saved |-> FALSE]
    /\ degraded_images = <<>>

NextDataset ==
    \/ ReadImage
    \/ SkipImage
    \/ DegradeAndRecord
    \/ SaveMetadata

SpecDataset == InitDataset /\ [][NextDataset]_vars

----------------------------------------------------------------------------
(* ColorBlindnessMetrics.calculate_visibility_threshold *)

\* np.mean(np.abs(orig_array - sim_array)) / 255.0 with no target region,
\* as a fraction: the sum of the differences over 255 times their number.
calculate_target_visibility(original, simulated) ==
    << SumSeq([ k \in 1..Len(original) |->
                  SumSeq([ c \in 1..3 |->
                      IF original[k][c] >= simulated[k][c]
                      THEN original[k][c] - simulated[k][c]
                      ELSE simulated[k][c] - original[k][c] ]) ]),
       255 * 3 * Len(original) >>

\* The test visibility_score >= 0.1 in place of visibility_score < 0.1.
is_still_visible(visibility_score) ==
    10 * visibility_score[1] >= visibility_score[2]

\* visibility_score < 0.1.
is_no_longer_visible(visibility_score) ==
    10 * visibility_score[1] < visibility_score[2]

\* The loop over np.linspace(0, 1, 101), severities in hundredths: the
\* first severity whose simulated image scores below 0.1 is returned, and
\* 1.0 when the loop ends.  A severity is reached when no earlier one
\* returned.
scan_severities(im, colorblind_type) ==
    LET sim_images(severity) ==
            simulation_functions(simulated_as(colorblind_type), im, severity,
                                 TRUE)
        returns(severity) ==
            \E sim_image \in sim_images(severity) :
                is_no_longer_visible(calculate_target_visibility(im, sim_image))
        continues(severity) ==
            \E sim_image \in sim_images(severity) :
                ~is_no_longer_visible(calculate_target_visibility(im, sim_image))
        reached(severity) ==
            \A earlier \in 0..(severity - 1) : continues(earlier)
    IN { Frac(severity, 100) :
           severity \in { n \in 0..100 : reached(n) /\ returns(n) } }
         \cup (IF reached(101) THEN { <<1, 1>> } ELSE {})

\* calculate_visibility_threshold(image, colorblind_type): the look-up of
\* simulate_<kind> and the scan; a kind without such a method and an image
\* that is not RGB raise at the first severity.
CalculateThreshold(colorblind_type) ==
    /\ Idle
    /\ image # <<>>
    /\ LET error == dispatch_error("calculate_visibility_threshold",
                                   colorblind_type)
       IN IF error # "none"
          THEN /\ raised' = error
               /\ visibility_threshold' = None
          ELSE IF is_rgb(array_shape(mode, shape))
          THEN /\ raised' = "none"
               /\ visibility_threshold' \in
                      scan_severities(image, colorblind_type)
          ELSE /\ raised' = "ValueError"
               /\ visibility_threshold' = None
    /\ applied' = [generator |-> "ColorBlindnessMetrics",
                   kind |-> colorblind_type, level |-> 0, improved |-> TRUE]
    /\ UNCHANGED <<image, rng, output, undefined, shape, resized, mode,
                   output_ref>>
    /\ UNCHANGED <<invocations, generation_vars, dataset_vars,
                   overall_metrics>>
    /\ UNCHANGED <<sweep_vars, sequencer_vars>>

NextVisibility ==
    Idle /\ \E colorblind_type \in RequestedTypes :
               CalculateThreshold(colorblind_type)

SpecVisibility == InitCalls /\ [][NextVisibility]_vars

----------------------------------------------------------------------------
(* ColorBlindnessEvaluator.calculate_overall_metrics, on the predictions of *)
(* one evaluated gradient sequence.                                         *)

\* severity_bins = np.linspace(0, 1, 11): edge i is the float i * 0.1, which
\* for i = 3, 6 and 7 lies just above the float i / 10.
edge_exceeds_tenths(i) ==
    i \in {3, 6, 7}

\* severity_bins[i] <= severity, for the float severity num / den.
edge_at_most(i, severity) ==
    \/ i * severity[2] < 10 * severity[1]
    \/ i * severity[2] = 10 * severity[1] /\ ~edge_exceeds_tenths(i)

\* bin_start <= p["severity"] < bin_end for bin i of range(10).
in_bin(i, severity) ==
    edge_at_most(i, severity) /\ ~edge_at_most(i + 1, severity)

IsValidPrediction(p) == p.has_success

IsNonEmptyBin(b) == b.sample_count > 0

\* The metrics returned: the valid predictions are the entries with a
\* "success" key; a bin is listed if it holds a prediction.
calculate_overall_metrics(all_predictions) ==
    LET valid_predictions == SelectSeq(all_predictions, IsValidPrediction)
        bin_predictions(i) ==
            { n \in 1..Len(valid_predictions) :
                in_bin(i, valid_predictions[n].severity) }
    IN IF valid_predictions = <<>>
       THEN [ no_overall_metrics EXCEPT !.returned = TRUE, !.error = TRUE ]
       ELSE [ returned |-> TRUE,
              error |-> FALSE,
              total_predictions |-> Len(valid_predictions),
              successful_predictions |->
                  Cardinality({ n \in 1..Len(valid_predictions) :
                                  valid_predictions[n].success }),
              severity_accuracy_breakdown |->
                  SelectSeq(
                      [ j \in 1..10 |->
                          [ severity_range |-> <<j - 1, j>>,
                            successes |->
                                Cardinality({ n \in bin_predictions(j - 1) :
                                    valid_predictions[n].success }),
                            sample_count |->
                                Cardinality(bin_predictions(j - 1)) ] ],
                      IsNonEmptyBin) ]

\* results["overall_metrics"] = self.calculate_overall_metrics(...), after
\* the sequences have been evaluated.
CalculateOverallMetrics ==
    /\ evaluator = "colorblind"
    /\ pc = "done"
    /\ ~overall_metrics.returned
    /\ overall_metrics' = calculate_overall_metrics(predictions)
    /\ UNCHANGED <<invocations, generation_vars, dataset_vars,
                   visibility_threshold>>
    /\ UNCHANGED <<sweep_vars, transform_vars, sequencer_vars>>

\* The predictions evaluate_colorblind_sequence leaves for a sequence of n
\* gradient files: at each step the model raised or answered.
EvaluatedSequences ==
    UNION { { [ s \in 1..n |->
                  CB_step_result(s - 1, n, o[s][1], o[s][2], o[s][3]) ] :
              o \in [1..n -> { <<TRUE, FALSE, FALSE>> }
                               \cup { <<FALSE, c, f>> :
                                        c \in BOOLEAN, f \in BOOLEAN }] } :
            n \in 2..(MaxLevel + 1) }

InitMetrics ==
    /\ NoTransform
    /\ NoSequence
    /\ invocations = <<>>
    /\ NoGeneration
    /\ NoDataset
    /\ NoMetrics
    /\ evaluator = "colorblind"
    /\ predictions \in EvaluatedSequences
    /\ levels = [ s \in 1..Len(predictions) |-> s - 1 ]
    /\ n_images = 1
    /\ img = 1
    /\ step = Len(predictions)
    /\ results = <<>>
    /\ batch_results = <<>>
    /\ failure_threshold = CB_find_failure_threshold(predictions)
    /\ recovery_threshold = CB_find_recovery_threshold(predictions)
    /\ stats = <<0, 0>>
    /\ pc = "done"

NextMetrics ==
    CalculateOverallMetrics

SpecMetrics == InitMetrics /\ [][NextMetrics]_vars

---------------------------------------------------------------------------
(* Properties of the sweeps *)

CBDone == evaluator = "colorblind" /\ pc = "done"

VBDone == evaluator = "boundary" /\ pc = "done"

CBFailed(i) == predictions[i].has_success /\ ~predictions[i].success

CBSucceeded(i) == predictions[i].has_success /\ predictions[i].success

\* C1: when every tested variant is judged successful the reported failure
\* threshold is the maximum level (severity 1.0 / the top level), never
\* None, in both find_failure_threshold implementations.
C1_AllSuccessGivesMaxLevel ==
    /\ (CBDone /\ \A i \in 1..Len(predictions) : CBSucceeded(i))
          => failure_threshold = <<1, 1>>
    /\ (VBDone /\ \A i \in 1..Len(results) : results[i].success)
          => failure_threshold \in {<<MaxLevel>>, <<levels[Len(levels)]>>}

\* C2: when every tested variant is judged unsuccessful and the tested
\* levels start at level 0, the reported failure threshold is 0, also for
\* a sparse set of levels, in both find_failure_threshold implementations.
C2_AllFailureGivesZero ==
    /\ (CBDone /\ \A i \in 1..Len(predictions) : CBFailed(i))
          => failure_threshold = <<0, 1>>
    /\ (VBDone /\ levels[1] = 0 /\ \A i \in 1..Len(results) : ~results[i].success)
          => failure_threshold = <<0>>

VBStreaks ==
    LET S == SortedByLevel(results)
    IN { i \in 1..(Len(S) - 2) :
           ~S[i].success /\ ~S[i + 1].success /\ ~S[i + 2].success }

C4_ThresholdIsATestedLevel ==
    /\ evaluator = "colorblind"
          => /\ \A i \in 1..Len(predictions) :
                   predictions[i].severity = Frac(levels[i], Len(levels) - 1)
             /\ pc = "done"
                   => failure_threshold \in
                        { Frac(levels[i], Len(levels) - 1) : i \in 1..Len(levels) }
                          \cup {<<1, 1>>}
    /\ evaluator = "boundary"
          => /\ \A i \in 1..Len(results) :
                   results[i].level \in { levels[k] : k \in 1..Len(levels) }
             /\ pc = "done"
                   => failure_threshold \in
                        { <<levels[k]>> : k \in 1..Len(levels) }
                          \cup {None, <<MaxLevel>>}

\* Successful variants that come after at least one unsuccessful variant.
CBRecoveries ==
    { i \in 1..Len(predictions) :
        CBSucceeded(i) /\ \E j \in 1..(i - 1) : CBFailed(j) }

CBJudged == SelectSeq(predictions, LAMBDA p : p.has_success)

\* C5: find_recovery_threshold returns the severity of the first successful
\* variant that comes after at least one unsuccessful variant, and None
\* when no success follows a failure; variants whose comparator call
\* errored are skipped and change neither threshold.
C5_RecoveryThreshold ==
    CBDone =>
      /\ recovery_threshold =
            IF CBRecoveries = {} THEN None
            ELSE predictions[SetMin(CBRecoveries)].severity
      /\ recovery_threshold = CB_find_recovery_threshold(CBJudged)
      /\ failure_threshold = CB_find_failure_threshold(CBJudged)

\* C5 witness: a finished sequence with an errored variant between a
\* failure and the success that follows it.
C5_Witness ==
    /\ CBDone
    /\ recovery_threshold # None
    /\ \E j \in 1..Len(predictions), e \in 1..Len(predictions) :
          /\ CBFailed(j)
          /\ ~predictions[e].has_success
          /\ j < e
          /\ predictions[e].severity[1] * recovery_threshold[2]
                < recovery_threshold[1] * predictions[e].severity[2]

\* C6: a failure on one item does not stop the sweep: when the comparator
\* raises for one variant, or one base image cannot be loaded or
\* transformed, the sweep still ends normally with an entry for every
\* remaining item, in all three sweeps.
C6_FailureDoesNotStopSweep ==
    /\ (evaluator = "colorblind" /\ Len(levels) > 1)
          => /\ pc # "raised"
             /\ pc = "done" => Len(predictions) = Len(levels)
    /\ evaluator = "boundary"
          => /\ pc # "raised"
             /\ pc = "done" => Len(results) = n_images * Len(levels)
    /\ evaluator = "batch"
          => /\ pc # "raised"
             /\ pc = "done" => img = n_images + 1

---------------------------------------------------------------------------
(* Properties of the transforms *)

Degraded == applied.generator = "VisualDegradationGenerator"

Simulated == applied.generator = "ColorBlindnessSimulator"

NoiseGradient == applied.generator = "NoiseGradientGenerator"

FastNoise ==
    applied.generator = "fast_noise_generator" /\ applied.kind = "noise"

\* C7: level 0 is the identity for the deterministic kinds: each of the six
\* degraders of VisualDegradationGenerator called with level 0, and each
\* colour-vision simulation (three types, basic or improved matrix) called
\* with severity 0, returns an image whose every pixel equals the input
\* pixel.
C7_LevelZeroIsIdentity ==
    ((Degraded \/ Simulated) /\ applied.level = 0) => output = image

\* A saturated colour went through degrade_color_distortion at level 0.
C7_Witness ==
    /\ Degraded
    /\ applied.kind = "color_distortion"
    /\ applied.level = 0
    /\ image = << <<201, 30, 99>>, <<10, 128, 200>> >>
    /\ output = image

\* C8 as stated: the first variant (index 0, intensity 0.0) of each non-noise
\* kind of NoiseGradientGenerator is the unmodified source image.
C8_IndexZeroIsUnmodified ==
    (NoiseGradient /\ applied.kind \notin noise_types /\ applied.level = 0)
        => output = image

\* C8, amended: at index 0 blur_effect, pixelation and color_shift return
\* the unmodified source image; brightness_variation returns every channel
\* scaled by 0.3 (within one unit), contrast_variation returns every channel
\* halfway between its input and the mean gray of the image, and
\* saturation_variation returns the gray version of the image.
C8_IndexZeroAppliesStartFactor ==
    (NoiseGradient /\ applied.level = 0) =>
        /\ applied.kind \in {"blur_effect", "pixelation", "color_shift"}
              => output = image
        /\ applied.kind = "brightness_variation" =>
              \A k \in 1..Len(image), c \in 1..3 :
                  /\ 10 * output[k][c] <= 3 * image[k][c]
                  /\ 3 * image[k][c] <= 10 * output[k][c] + 10
        /\ applied.kind = "contrast_variation" =>
              \A k \in 1..Len(image), c \in 1..3 :
                  LET total == image[k][c] + contrast_degenerate(image)[k][c]
                  IN 2 * output[k][c] <= total /\ total <= 2 * output[k][c] + 1
        /\ applied.kind = "saturation_variation" =>
              \A k \in 1..Len(image), c \in 1..3 :
                  output[k][c] = luma(image[k])

\* brightness_variation at index 0 darkened a colour.
C8_Witness ==
    /\ NoiseGradient
    /\ applied.kind = "brightness_variation"
    /\ applied.level = 0
    /\ image = << <<201, 30, 99>> >>
    /\ output = << <<60, 9, 29>> >>

\* C9: each stochastic noise kind (Gaussian, salt-and-pepper, Poisson-like,
\* speckle; the Gaussian noise of fast_noise_generator too) applied at
\* intensity 0 injects no noise: for every input image and every state of
\* the random source the output equals the input pixel for pixel, and the
\* computation is well defined (no division by zero).
C9_ZeroIntensityInjectsNoNoise ==
    (/\ (NoiseGradient /\ applied.kind \in noise_types) \/ FastNoise
     /\ applied.level = 0)
        => (output = image /\ ~undefined)

\* C10: gray is a fixed point of the colour-space transform: for each of the
\* six matrices and every gray pixel (v, v, v), v in 0..255,
\* apply_colorblindness_matrix at severity 1.0 returns a pixel whose three
\* channels each equal v within one unit out of 255.
C10_GrayIsFixedPoint ==
    (Simulated /\ applied.level = 100 /\ Len(image) = 1 /\ image[1] \in Grays)
        => \A c \in 1..3 :
              /\ output[1][c] - image[1][c] <= 1
              /\ image[1][c] - output[1][c] <= 1

\* The improved deuteranopia matrix, whose second row sums to 0.999999, took
\* the green channel of a mid gray one unit down.
C10_Witness ==
    /\ Simulated
    /\ applied.kind = "deuteranopia"
    /\ applied.improved
    /\ applied.level = 100
    /\ image = << <<128, 128, 128>> >>
    /\ output[1][2] = 127

\* C11: simulate_protanopia with severity 1.0 and improved=True maps a
\* solid-red image to an image in which every pixel is clip(M [1,0,0])
\* scaled to 0..255 and truncated, (38, 29, 0), M the improved protanopia
\* matrix; and in every simulation each output pixel is one that the same
\* call gives for the input pixel at the same position alone.
C11_SolidRedIsUniform ==
    Simulated =>
        /\ \A k \in 1..Len(image) :
              <<output[k]>> \in simulation_functions(applied.kind,
                                   <<image[k]>>, applied.level, applied.improved)
        /\ (/\ applied.kind = "protanopia"
            /\ applied.improved
            /\ applied.level = 100
            /\ \A k \in 1..Len(image) : image[k] = <<255, 0, 0>>)
              => /\ Len(output) = Len(image)
                 /\ \A k \in 1..Len(output) :
                       output[k] = << (152286 * 255) \div 1000000,
                                      (114503 * 255) \div 1000000, 0 >>

\* A solid-red image of the largest size went through the improved
\* protanopia simulation at full severity.
C11_Witness ==
    /\ Simulated
    /\ applied.kind = "protanopia"
    /\ applied.improved
    /\ applied.level = 100
    /\ Len(image) = MaxPixels
    /\ \A k \in 1..Len(image) : image[k] = <<255, 0, 0>>
    /\ \A k \in 1..Len(output) : output[k] = <<38, 29, 0>>

\* a / b < c / d for fractions with positive denominators.
FracLess(x, y) ==
    x[1] * y[2] < y[1] * x[2]

\* C12: over the integer levels 0..100 the photometric factors of
\* VisualDegradationGenerator are monotonic within each band: the
\* brightness factor is strictly decreasing over 0..50 and strictly
\* increasing over 50..100, the contrast factor and the resolution scale
\* factor are strictly decreasing over 0..100, from 1.0 to 0.01 and from
\* 1.0 to 0.05.  Stated at the level of the call made and the next level.
C12_FactorsAreMonotonic ==
    (Degraded /\ applied.level < 100) =>
        LET level == applied.level
        IN /\ applied.kind = "brightness" =>
                 IF level < 50
                 THEN FracLess(brightness_factor(level + 1),
                               brightness_factor(level))
                 ELSE FracLess(brightness_factor(level),
                               brightness_factor(level + 1))
           /\ applied.kind = "contrast" =>
                 /\ FracLess(contrast_factor(level + 1), contrast_factor(level))
                 /\ level = 0 => contrast_factor(level) = <<10000, 10000>>
                 /\ level = 99 => contrast_factor(level + 1) = <<100, 10000>>
           /\ applied.kind = "resolution" =>
                 /\ FracLess(scale_factor(level + 1), scale_factor(level))
                 /\ level = 0 => scale_factor(level) = <<2000, 2000>>
                 /\ level = 99 => scale_factor(level + 1) = <<100, 2000>>

\* degrade_brightness was called at the turning level 50, where the factor
\* is 0.2.
C12_Witness ==
    /\ Degraded
    /\ applied.kind = "brightness"
    /\ applied.level = 50
    /\ brightness_factor(applied.level) = <<100, 500>>
    /\ image = << <<201, 30, 99>> >>
    /\ output = << <<40, 6, 19>> >>

\* C13: for every level in 1..100 and every image with width and height
\* > 0, degrade_resolution downsamples to an intermediate image whose width
\* and height are each max(floor(side * scale_factor), 8), hence never
\* below 8 pixels per side, and then returns an image with exactly the
\* original width and height.
C13_ResolutionFloorAndSize ==
    (Degraded /\ applied.kind = "resolution" /\ applied.level >= 1) =>
        /\ resized # <<>>
        /\ \A d \in 1..2 :
              /\ resized[1][d] =
                    Max2((shape[d] * (2000 - 19 * applied.level)) \div 2000, 8)
              /\ resized[1][d] >= 8
        /\ resized[2] = shape
        /\ Len(output) = shape[1] * shape[2]

\* One side stayed above the floor of 8 and the other was raised to it.
C13_Witness ==
    /\ Degraded
    /\ applied.kind = "resolution"
    /\ applied.level = 1
    /\ shape = <<MaxSide, 2>>
    /\ resized = << <<MaxSide - 1, 8>>, shape >>
    /\ Len(output) = 2 * MaxSide

\* The three pixelation calls and the constant K of each.
Pixelating ==
    \/ NoiseGradient /\ applied.kind = "pixelation"
    \/ applied.generator = "fast_noise_generator" /\ applied.kind = "pixel"
    \/ applied.generator = "complete_noise_dataset" /\ applied.kind = "pixel"

PixelationK ==
    CASE applied.generator = "fast_noise_generator" -> 20
      [] applied.generator = "complete_noise_dataset" -> 25
      [] OTHER -> 50

PixelSizeUsed ==
    CASE applied.generator = "fast_noise_generator" ->
             pixel_manipulation_pixel_size(applied.level)
      [] applied.generator = "complete_noise_dataset" ->
             complete_pixel_size(applied.level)
      [] OTHER -> pixelation_pixel_size(<<applied.level, 99>>)

\* C14: in every pixelation implementation the block size at level fraction
\* f = level / 99 is max(1, floor(f * K) + 1) for that implementation's
\* constant K (20, 25 and 50), so the block size is 1 at f = 0 and K + 1 at
\* f = 1; the image is downsampled to max(1, side div block) per side and
\* upsampled back to exactly the original size.
C14_BlockSizeIsFloorPlusOne ==
    Pixelating =>
        LET block == Max2(1, ((PixelationK * applied.level) \div 99) + 1)
        IN /\ PixelSizeUsed = block
           /\ applied.level = 0 => PixelSizeUsed = 1
           /\ applied.level = 99 => PixelSizeUsed = PixelationK + 1
           /\ resized = << << Max2(1, shape[1] \div block),
                              Max2(1, shape[2] \div block) >>, shape >>
           /\ Len(output) = shape[1] * shape[2]

----------------------------------------------------------------------------
(* Properties of the gradient sequencers *)

Sequencing == params # <<>>

\* x <= y for two values <<units, error in units in the last place>>.
ValueLeq(x, y) ==
    x[1] < y[1] \/ (x[1] = y[1] /\ x[2] <= y[2])

C16_ParametersWithinDeclaredRange ==
    (Sequencing /\ sequencer = "generate_gradient_variations") =>
        \A r \in 1..2 :
            LET e == params[r]
            IN /\ e.t >= 0 /\ e.t <= TUnit
               /\ ValueLeq(declared(param_range[1]), e.value)
               /\ ValueLeq(e.value, declared(param_range[2]))

\* C17: two runs of generate_gradient_variations with the same kind, the
\* same declared ranges and the same number of steps generate the same
\* parameter value at every index.
C17_SequenceIsReproducible ==
    (Sequencing /\ sequencer = "generate_gradient_variations") =>
        params[1].value = params[2].value

----------------------------------------------------------------------------
(* Properties of calls outside the contract *)

EntryPoints ==
    { "generate_gradients", "analyze_color_contrast",
      "calculate_visibility_threshold" }

Rejected == raised # "none" /\ output = <<>>

\* C18: apply_colorblindness_matrix rejects every input whose pixel array
\* is not height x width x 3, such as a single-band or an RGBA image: the
\* call raises an error and returns no image, for every matrix and every
\* severity.
C18_NonRGBIsRejected ==
    (Simulated /\ array_shape(mode, shape) # <<shape[2], shape[1], 3>>) =>
        raised = "ValueError" /\ output = <<>>

C18_Witness ==
    /\ Simulated
    /\ mode = "RGBA"
    /\ applied.level = 50
    /\ raised = "ValueError"
    /\ output = <<>>

\* C19: a transform called with a level outside [0, L] (L = 100 for the
\* degraders, 99 for the fast generator) or a severity outside [0, 1]
\* raises an error and returns no image.
C19_OutOfRangeIsRejected ==
    /\ (Degraded /\ applied.level \notin 0..100) => Rejected
    /\ (Simulated /\ applied.level \notin 0..100) => Rejected
    /\ (applied.generator = "fast_noise_generator"
        /\ applied.level \notin 0..99) => Rejected

\* C20: a request for a kind other than protanopia, deuteranopia and
\* tritanopia raises an error in generate_gradients, in
\* analyze_color_contrast and in calculate_visibility_threshold, and no
\* variant image is produced.
C20_UnsupportedKindIsRejected ==
    (applied.generator \in EntryPoints
     /\ applied.kind \notin {"protanopia", "deuteranopia", "tritanopia"}) =>
        Rejected

----------------------------------------------------------------------------
(* Properties of the images returned *)

\* im is a row of three-channel pixels with every channel in 0..255.
ValidImage(im) ==
    \A k \in 1..Len(im) :
        Len(im[k]) = 3 /\ \A c \in 1..3 : im[k][c] \in 0..255

C22_ReturnedBufferIsNew ==
    (~Idle /\ raised = "none") => output_ref = "new"

\* C23: transform invocations for different (image, kind, level) triples
\* share no mutable state: whichever of them runs first, each returns what
\* it returns when it runs alone from the state the batch started in.
C23_OutputIsIndependentOfInterleaving ==
    \A n \in 1..Len(invocations) :
        invocations[n].done =>
            invocations[n].output
                \in invoke(invocations[n], image, invocations[n].start)

----------------------------------------------------------------------------
(* Properties of the dataset generators *)

\* C24: for every colour-blindness type, gradient generation with N steps
\* produces exactly N + 1 variants, one for each step 0..N in increasing
\* order, the variant of step k having severity k / N: step 0 has severity
\* 0, step N severity 1.0, and N = 100 gives 101 images.
C24_OneVariantPerStep ==
    LET N == generation.num_steps
    IN /\ \A k \in 1..Len(generated_files) :
              /\ generated_files[k].step = k - 1
              /\ generated_files[k].severity = Frac(k - 1, N)
       /\ generation.returned =>
              /\ Len(generated_files) = N + 1
              /\ generated_files[1].severity = <<0, 1>>
              /\ generated_files[N + 1].severity = <<1, 1>>

C24_Witness ==
    /\ generation.returned
    /\ generation.num_steps = 100
    /\ Len(generated_files) = 101
    /\ generated_files[51].severity = <<1, 2>>

----------------------------------------------------------------------------
(* Properties of salt-and-pepper noise *)

SaltPepper ==
    NoiseGradient /\ applied.kind = "salt_pepper_noise"

\* The state of the random source the applied transform drew from.
drawn_from ==
    (rng + RngStates - 1) % RngStates

\* C25: in salt-and-pepper noise, for every intensity in [0, 1] and every
\* value of the random mask, no pixel is marked both salt and pepper; a salt
\* pixel has all three channels at 255, a pepper pixel all three at 0, and
\* a pixel in neither set keeps its input value.
C25_SaltAndPepperAreDisjoint ==
    SaltPepper =>
        LET intensity == <<applied.level, 99>>
        IN /\ \A m \in 0..999 :
                  ~(salt_mask(m, intensity) /\ pepper_mask(m, intensity))
           /\ \A k \in 1..Len(image) :
                  LET m == random_sample(drawn_from, k - 1)
                  IN /\ salt_mask(m, intensity) => output[k] = <<255, 255, 255>>
                     /\ pepper_mask(m, intensity) => output[k] = <<0, 0, 0>>
                     /\ (~salt_mask(m, intensity) /\ ~pepper_mask(m, intensity))
                            => output[k] = image[k]

\* At full intensity one pixel was salted and the other peppered.
C25_Witness ==
    /\ SaltPepper
    /\ applied.level = 99
    /\ Len(image) = 2
    /\ salt_mask(random_sample(drawn_from, 0), <<99, 99>>)
    /\ pepper_mask(random_sample(drawn_from, 1), <<99, 99>>)
    /\ output = << <<255, 255, 255>>, <<0, 0, 0>> >>
    /\ image[1] # <<255, 255, 255>>
    /\ image[2] # <<0, 0, 0>>

----------------------------------------------------------------------------
(* Properties of the colour distortion *)

ColorDistorted ==
    Degraded /\ applied.kind = "color_distortion"

\* C26: degrade_color_distortion shifts the hue at the degraded levels: for
\* every level in 1..100 the hue offset (level / 100) * 360 - 180, taken
\* modulo the hue range 180, is non-zero, so the hue channel of the output
\* differs from the input's at every pixel; in particular level 100 applies
\* a hue shift.
C26_DegradedLevelsShiftTheHue ==
    (ColorDistorted /\ applied.level \in 1..100) =>
        /\ shifted_hue(0, applied.level) # 0
        /\ \A k \in 1..Len(image) :
               LET h == BGR2HSV(image[k])[1]
               IN shifted_hue(h, applied.level) \div hue_shift(applied.level)[2]
                      # h

----------------------------------------------------------------------------
(* Properties of the degraded dataset *)

\* C27: after generate_degraded_dataset finishes, the counts it records in
\* dataset_info (levels_per_type, and total_generated_images = base images
\* x 6 types x levels_per_type) equal the number of degraded-image records
\* it appended and of files it wrote, for any image list, lists with images
\* that cannot be loaded included.
C27_RecordedCountsMatchTheDataset ==
    dataset.saved =>
        LET info == dataset.dataset_info
        IN /\ info.total_generated_images
                  = info.total_base_images * 6 * info.levels_per_type
           /\ info.total_generated_images = Len(degraded_images)
           /\ info.total_generated_images = Cardinality(written_files)
           /\ \A n \in 1..Len(degraded_images) :
                  info.levels_per_type
                      = Cardinality({ m \in 1..Len(degraded_images) :
                            /\ degraded_images[m].original_image
                                   = degraded_images[n].original_image
                            /\ degraded_images[m].degradation_type
                                   = degraded_images[n].degradation_type })

----------------------------------------------------------------------------
(* Properties of the thresholds over several images *)

\* C28: the failure threshold VisualBoundaryEvaluator.find_failure_threshold
\* returns is none or a level within the range of tested levels, 0..100,
\* for every list of results, the list of run_comprehensive_evaluation
\* included, which concatenates the results of several images at the same
\* levels.
C28_ThresholdIsWithinTheLevelRange ==
    (evaluator = "boundary" /\ pc = "done") =>
        \/ failure_threshold = None
        \/ failure_threshold[1] \in 0..100

----------------------------------------------------------------------------
(* Properties of the metrics *)

ThresholdReturned ==
    /\ applied.generator = "ColorBlindnessMetrics"
    /\ raised = "none"

C30_BinsCountEveryPrediction ==
    (overall_metrics.returned /\ ~overall_metrics.error) =>
        /\ \A n \in 1..Len(predictions) :
               predictions[n].has_success =>
                   Cardinality({ i \in 0..9 :
                                   in_bin(i, predictions[n].severity) }) = 1
        /\ SumSeq([ j \in 1..Len(overall_metrics.severity_accuracy_breakdown)
                      |-> overall_metrics.severity_accuracy_breakdown[j]
                              .sample_count ])
               = overall_metrics.total_predictions

====
